---------------------------- MODULE Spec2Model ----------------------------
(***************************************************************************)
(* Model of the proposal payment extraction and valuation engine of        *)
(* DaoLedger (src/DaoLedger/utils/data_processor.py, class DataProcessor). *)
(*                                                                         *)
(* Python values are represented as follows.                               *)
(*   - text that the code inspects character by character (denoms, token   *)
(*     symbols) is a sequence of one-character strings;                    *)
(*   - text that the code only compares or measures (addresses, names) is  *)
(*     a TLA+ string, with its shape given by AddrShape;                   *)
(*   - a float is an exact rational [n, d] in lowest terms;                *)
(*   - a date string is a record [k, y, m, d];                             *)
(*   - a JSON value is a tagged record (JStr, JInt, JDict, JList, ...).    *)
(***************************************************************************)
EXTENDS Integers, Sequences, FiniteSets, TLC

(***************************************************************************)
(* Character-level strings                                                 *)
(***************************************************************************)
LowerLetters ==
  <<"a","b","c","d","e","f","g","h","i","j","k","l","m",
    "n","o","p","q","r","s","t","u","v","w","x","y","z">>

UpperLetters ==
  <<"A","B","C","D","E","F","G","H","I","J","K","L","M",
    "N","O","P","Q","R","S","T","U","V","W","X","Y","Z">>

Digits == {"0","1","2","3","4","5","6","7","8","9"}

LowerSet == {LowerLetters[i] : i \in 1..Len(LowerLetters)}

UpperSet == {UpperLetters[i] : i \in 1..Len(UpperLetters)}

\* the upper-case letter of each lower-case letter, and the reverse
ToUpper == [c \in LowerSet |-> UpperLetters[CHOOSE i \in 1..Len(LowerLetters) : LowerLetters[i] = c]]

ToLower == [c \in UpperSet |-> LowerLetters[CHOOSE i \in 1..Len(UpperLetters) : UpperLetters[i] = c]]

IsLowerChar(c) == c \in LowerSet

IsUpperChar(c) == c \in UpperSet

UpperChar(c) == IF IsLowerChar(c) THEN ToUpper[c] ELSE c

LowerChar(c) == IF IsUpperChar(c) THEN ToLower[c] ELSE c

\* str.upper()
StrUpper(s) == [i \in 1..Len(s) |-> UpperChar(s[i])]

\* str.lower()
StrLower(s) == [i \in 1..Len(s) |-> LowerChar(s[i])]

IsAlnumChar(c) == IsLowerChar(c) \/ IsUpperChar(c) \/ c \in Digits

\* re.sub(r'[^A-Za-z0-9]', '', s)
RECURSIVE StripNonAlnum(_)
StripNonAlnum(s) ==
  IF s = <<>> THEN <<>>
  ELSE IF IsAlnumChar(Head(s)) THEN <<Head(s)>> \o StripNonAlnum(Tail(s))
  ELSE StripNonAlnum(Tail(s))

\* '/' in s
HasSlash(s) == \E i \in 1..Len(s) : s[i] = "/"

\* s.split('/')[-1]
LastSegment(s) ==
  IF HasSlash(s)
  THEN LET last == CHOOSE i \in 1..Len(s) : s[i] = "/" /\ \A j \in (i+1)..Len(s) : s[j] # "/"
       IN  SubSeq(s, last + 1, Len(s))
  ELSE s

\* sub in s
Contains(s, sub) ==
  \E i \in 1..(Len(s) - Len(sub) + 1) : SubSeq(s, i, i + Len(sub) - 1) = sub

\* str.isalpha() restricted to ASCII
IsAlpha(s) == s # <<>> /\ \A i \in 1..Len(s) : IsLowerChar(s[i]) \/ IsUpperChar(s[i])

\* a value that is not a str where the code expects one (an int, a list)
NonStr == <<"<non-str>">>

IsStr(s) == s # NonStr

(***************************************************************************)
(* Floats as exact rationals                                               *)
(***************************************************************************)
Abs(x) == IF x < 0 THEN -x ELSE x

RECURSIVE Gcd(_, _)
Gcd(a, b) == IF b = 0 THEN a ELSE Gcd(b, a % b)

Rat(n, d) ==
  LET g == Gcd(Abs(n), Abs(d))
      s == IF d < 0 THEN -1 ELSE 1
  IN  [n |-> s * (n \div g), d |-> s * (d \div g)]

Zero == [n |-> 0, d |-> 1]

\* Python None where a number is expected (not a rational: d = 0)
NoneNum == [n |-> 0, d |-> 0]

IsNum(x) == x.d # 0

RatMul(a, b) ==
  LET x == Rat(a.n, b.d)
      y == Rat(b.n, a.d)
  IN  [n |-> x.n * y.n, d |-> x.d * y.d]

\* a + b over the least common denominator
RatAdd(a, b) ==
  Rat(a.n * (b.d \div Gcd(a.d, b.d)) + b.n * (a.d \div Gcd(a.d, b.d)),
      a.d * (b.d \div Gcd(a.d, b.d)))

\* a / b for b # 0
RatDiv(a, b) == RatMul(a, Rat(b.d, b.n))

\* a > k for an integer k
RatGt(a, k) == a.n > k * a.d

\* a >= k for an integer k
RatGeq(a, k) == (a.n \div a.d) >= k

RECURSIVE Pow10(_)
Pow10(k) == IF k = 0 THEN 1 ELSE 10 * Pow10(k - 1)

(***************************************************************************)
(* Date strings and datetime.strptime(x, '%Y-%m-%d')                       *)
(***************************************************************************)
\* "YYYY-MM-DD" with the three numeric parts y, m, d
YMD(y, m, d) == [k |-> "ymd", y |-> y, m |-> m, d |-> d]

\* text that is not three '-'-separated numbers
GarbageDate == [k |-> "text", y |-> 0, m |-> 0, d |-> 0]

\* the empty string
EmptyDate == [k |-> "empty", y |-> 0, m |-> 0, d |-> 0]

\* pandas NaN: the row has no 'Proposal Date' key
NaNDate == [k |-> "nan", y |-> 0, m |-> 0, d |-> 0]

IsLeap(y) == (y % 4 = 0 /\ y % 100 # 0) \/ y % 400 = 0

DaysInMonth(y, m) ==
  IF m = 2 THEN (IF IsLeap(y) THEN 29 ELSE 28)
  ELSE IF m \in {4, 6, 9, 11} THEN 30 ELSE 31

\* strptime succeeds
Parses(x) ==
  /\ x.k = "ymd"
  /\ x.y \in 1..9999
  /\ x.m \in 1..12
  /\ x.d \in 1..DaysInMonth(x.y, x.m)

RECURSIVE DaysBeforeMonth(_, _)
DaysBeforeMonth(y, m) == IF m = 1 THEN 0 ELSE DaysBeforeMonth(y, m - 1) + DaysInMonth(y, m - 1)

\* datetime.toordinal(); differences of ordinals are timedelta.days
Ordinal(x) ==
  LET y1 == x.y - 1
  IN  365 * y1 + (y1 \div 4) - (y1 \div 100) + (y1 \div 400) + DaysBeforeMonth(x.y, x.m) + x.d

\* order of "YYYY-MM-DD" strings under sorted()
DateLess(a, b) ==
  \/ a.y < b.y
  \/ a.y = b.y /\ a.m < b.m
  \/ a.y = b.y /\ a.m = b.m /\ a.d < b.d

(***************************************************************************)
(* Symbols and denoms as character sequences                               *)
(***************************************************************************)
uosmo == <<"u","o","s","m","o">>

osmo == <<"o","s","m","o">>

OSMO == <<"O","S","M","O">>

scrt == <<"s","c","r","t">>

SCRT == <<"S","C","R","T">>

PAGE == <<"P","A","G","E">>

token == <<"t","o","k","e","n">>

ibcAtom == <<"i","b","c","/","A","T","O","M">>

ATOM == <<"A","T","O","M">>

(***************************************************************************)
(* The Price Table: pricing_lookup = {TOKEN: {date: price}}                *)
(***************************************************************************)
\* str.strip() for blanks
RECURSIVE StripLeft(_)
StripLeft(s) == IF s # <<>> /\ Head(s) = " " THEN StripLeft(Tail(s)) ELSE s

RECURSIVE StripRight(_)
StripRight(s) ==
  IF s # <<>> /\ s[Len(s)] = " " THEN StripRight(SubSeq(s, 1, Len(s) - 1)) ELSE s

Strip(s) == StripRight(StripLeft(s))

\* a table that keeps the first price written for a token and date
PutPriceFirst(lookup, token_key, date, price) ==
  IF token_key \in DOMAIN lookup
  THEN IF date \in DOMAIN lookup[token_key] THEN lookup
       ELSE [lookup EXCEPT ![token_key] =
               [x \in (DOMAIN lookup[token_key]) \cup {date} |->
                  IF x = date THEN price ELSE lookup[token_key][x]]]
  ELSE [t \in (DOMAIN lookup) \cup {token_key} |->
          IF t = token_key THEN [x \in {date} |-> price] ELSE lookup[t]]

\* self.pricing_lookup[token_key][date] = price
PutPrice(lookup, token_key, date, price) ==
  LET old == IF token_key \in DOMAIN lookup THEN lookup[token_key] ELSE << >>
      new == [x \in (DOMAIN old) \cup {date} |-> IF x = date THEN price ELSE old[x]]
  IN  [t \in (DOMAIN lookup) \cup {token_key} |-> IF t = token_key THEN new ELSE lookup[t]]

\* the loop body of _load_pricing_data for one entry
LoadEntry(lookup, entry) ==
  LET tok       == Strip(entry.token)
      token_key == IF tok # <<>> THEN StrUpper(tok) ELSE tok
  IN  IF token_key = <<>> THEN lookup
      ELSE PutPrice(lookup, token_key, entry.date, entry.price)

RECURSIVE LoadFrom(_, _, _)
LoadFrom(pricing_list, i, lookup) ==
  IF i > Len(pricing_list) THEN lookup
  ELSE LoadFrom(pricing_list, i + 1, LoadEntry(lookup, pricing_list[i]))

\* _load_pricing_data: file is [found, entries]; a missing file gives {}
LoadPricingData(file) ==
  IF file.found THEN LoadFrom(file.entries, 1, << >>) ELSE << >>

(***************************************************************************)
(* _calculate_usd_value                                                    *)
(***************************************************************************)
\* alias_map
AliasMap(key) ==
  IF key = uosmo THEN OSMO
  ELSE IF key = osmo THEN OSMO
  ELSE IF key = scrt THEN SCRT
  ELSE <<>>

HasAlias(key) == key \in {uosmo, osmo, scrt}

\* alias_map.get(key.lower(), key).upper()
LookupKeyUp(key) ==
  StrUpper(IF HasAlias(StrLower(key)) THEN AliasMap(StrLower(key)) ELSE key)

\* the candidate keys, in the order the code appends them
Candidates(token_symbol) ==
  LET last  == LastSegment(token_symbol)
      clean == StripNonAlnum(token_symbol)
  IN  <<token_symbol, StrUpper(token_symbol), StrLower(token_symbol)>>
      \o (IF HasSlash(token_symbol) THEN <<last, StrUpper(last)>> ELSE <<>>)
      \o (IF clean # <<>> THEN <<clean, StrUpper(clean)>> ELSE <<>>)

\* cg_map
CgMap(sym) ==
  IF sym = SCRT THEN "secret"
  ELSE IF sym = OSMO THEN "osmosis"
  ELSE IF sym = PAGE THEN "page"
  ELSE ""

\* sorted(token_prices.keys()) for keys that are all "YYYY-MM-DD"
RECURSIVE SortDates(_)
SortDates(S) ==
  IF S = {} THEN <<>>
  ELSE LET first == CHOOSE x \in S : \A y \in S \ {x} : DateLess(x, y)
       IN  <<first>> \o SortDates(S \ {first})

DayDiff(x, target) == Abs(Ordinal(x) - Ordinal(target))

\* a min() that keeps the last element with the smallest key
RECURSIVE MinFromLatest(_, _, _, _)
MinFromLatest(dates, i, best, target) ==
  IF i > Len(dates) THEN best
  ELSE IF DayDiff(dates[i], target) <= DayDiff(best, target)
       THEN MinFromLatest(dates, i + 1, dates[i], target)
       ELSE MinFromLatest(dates, i + 1, best, target)

\* min(available_dates, key=...): the first element with the smallest key
RECURSIVE MinFrom(_, _, _, _)
MinFrom(dates, i, best, target) ==
  IF i > Len(dates) THEN best
  ELSE IF DayDiff(dates[i], target) < DayDiff(best, target)
       THEN MinFrom(dates, i + 1, dates[i], target)
       ELSE MinFrom(dates, i + 1, best, target)

ClosestDate(available_dates, target) ==
  MinFrom(available_dates, 2, available_dates[1], target)

\* outcomes of the body of _calculate_usd_value:
\*   raised   an exception leaves the body    usd    the value returned
\*   resolved a price was found               cache  self._cg_cache afterwards
\*   call     the request sent, if any        caught an exception was swallowed
Ret(v, resolved, cache, call) ==
  [raised |-> FALSE, usd |-> v, resolved |-> resolved, cache |-> cache, call |-> call,
   caught |-> FALSE]

Raise(cache, call) ==
  [raised |-> TRUE, usd |-> Zero, resolved |-> FALSE, cache |-> cache, call |-> call,
   caught |-> FALSE]

NoCall == <<>>

\* a lookup that tries the symbol as it is and nothing else
FirstPresentAsIs(candidates, lookup) ==
  IF candidates[1] # <<>> /\ candidates[1] \in DOMAIN lookup THEN 1 ELSE 0

\* the first index of candidates whose upper-cased alias is a key of the table, or 0
FirstPresent(candidates, lookup) ==
  LET hits == {i \in 1..Len(candidates) :
                 candidates[i] # <<>> /\ LookupKeyUp(candidates[i]) \in DOMAIN lookup}
  IN  IF hits = {} THEN 0 ELSE CHOOSE i \in hits : \A j \in hits : i <= j

\* lines 843-855: the price of one token's table for a proposal date
LocalPrice(adjusted_amount, token_prices, proposal_date, cache) ==
  IF proposal_date \in DOMAIN token_prices
  THEN IF IsNum(token_prices[proposal_date])
       THEN Ret(RatMul(adjusted_amount, token_prices[proposal_date]), TRUE, cache, NoCall)
       ELSE Raise(cache, NoCall)
  ELSE IF ~Parses(proposal_date) \/ \E x \in DOMAIN token_prices : ~Parses(x)
       THEN Raise(cache, NoCall)
       ELSE LET closest_date == ClosestDate(SortDates(DOMAIN token_prices), proposal_date)
            IN  IF IsNum(token_prices[closest_date])
                THEN Ret(RatMul(adjusted_amount, token_prices[closest_date]), TRUE, cache, NoCall)
                ELSE Raise(cache, NoCall)

\* hasattr(self, '_cg_cache') / self._cg_cache = {}
CacheInit(cache) == IF cache.exists THEN cache ELSE [exists |-> TRUE, map |-> << >>]

\* a cache that forgets what it is given
CachePutNothing(cache, key, price) == [exists |-> TRUE, map |-> cache.map]

CachePut(cache, key, price) ==
  [exists |-> TRUE,
   map |-> [x \in (DOMAIN cache.map) \cup {key} |-> IF x = key THEN price ELSE cache.map[x]]]

\* lines 879-894: the request and what is done with its response
RemoteFetch(adjusted_amount, cache, cache_key, proposal_date, resp) ==
  LET call == <<[key |-> cache_key, kind |-> resp.kind]>>
  IN  IF proposal_date.k # "ymd" THEN Ret(Zero, FALSE, cache, NoCall)
      ELSE IF resp.kind = "ok"
           THEN Ret(RatMul(adjusted_amount, resp.price), TRUE,
                    CachePut(cache, cache_key, resp.price), call)
      ELSE IF resp.kind = "noprice"
           THEN Ret(Zero, FALSE, CachePut(cache, cache_key, NoneNum), call)
      ELSE Ret(Zero, FALSE, cache, call)

\* lines 857-896: the CoinGecko fallback
\* a remote fallback that never reads the cache
RemotePriceUncached(adjusted_amount, token_symbol, proposal_date, cache0, resp) ==
  LET cg_id == CgMap(StrUpper(token_symbol))
      cache == CacheInit(cache0)
  IN  IF cg_id = "" THEN Ret(Zero, FALSE, cache0, NoCall)
      ELSE RemoteFetch(adjusted_amount, cache, <<cg_id, proposal_date>>, proposal_date, resp)

RemotePrice(adjusted_amount, token_symbol, proposal_date, cache0, resp) ==
  LET cg_id == CgMap(StrUpper(token_symbol))
      cache == CacheInit(cache0)
      cache_key == <<cg_id, proposal_date>>
  IN  IF cg_id = "" THEN Ret(Zero, FALSE, cache0, NoCall)
      ELSE IF cache_key \in DOMAIN cache.map
           THEN IF IsNum(cache.map[cache_key])
                THEN Ret(RatMul(adjusted_amount, cache.map[cache_key]), TRUE, cache, NoCall)
                ELSE Ret(Zero, FALSE, cache, NoCall)
           ELSE RemoteFetch(adjusted_amount, cache, cache_key, proposal_date, resp)

\* the body of the outer try of _calculate_usd_value
UsdBody(row, lookup, cache, resp) ==
  LET adjusted_amount == row.AdjustedAmount
      token_symbol    == row.DisplaySymbol
      proposal_date   == row.ProposalDate
  IN  IF adjusted_amount = Zero \/ token_symbol = <<>> \/ proposal_date = EmptyDate
      THEN Ret(Zero, FALSE, cache, NoCall)
      ELSE IF ~IsStr(token_symbol) THEN Raise(cache, NoCall)
      ELSE LET candidates == Candidates(token_symbol)
               hit == FirstPresent(candidates, lookup)
           IN  IF hit # 0
               THEN LocalPrice(adjusted_amount, lookup[LookupKeyUp(candidates[hit])],
                               proposal_date, cache)
               ELSE RemotePrice(adjusted_amount, token_symbol, proposal_date, cache, resp)

\* a resolver without the outer except clause
CatchNothing(r) == r

\* except Exception: return 0.0
CatchAll(r) ==
  IF r.raised
  THEN [r EXCEPT !.raised = FALSE, !.usd = Zero, !.resolved = FALSE, !.caught = TRUE]
  ELSE r

CalculateUsdValue(row, lookup, cache, resp) == CatchAll(UsdBody(row, lookup, cache, resp))

(***************************************************************************)
(* JSON values                                                             *)
(***************************************************************************)
JNull == [t |-> "null"]

\* a str that is not a number: an address, a name, a denom
JStr(s) == [t |-> "str", s |-> s]

\* a str holding the decimal digits of i (with a sign when i < 0)
JNumStr(i) == [t |-> "numstr", i |-> i]

\* a str of the form "<i>uosmo"
JAmtStr(i) == [t |-> "amtstr", i |-> i]

\* a JSON integer
JInt(i) == [t |-> "int", i |-> i]

\* a dict: its items in insertion order, each <<key, value>>
JDict(items) == [t |-> "dict", items |-> items]

JList(elems) == [t |-> "list", elems |-> elems]

\* a str holding base64: ok tells whether it decodes, doc is what it decodes to
JB64(ok, doc) == [t |-> "b64", ok |-> ok, doc |-> doc]

\* a str "<date>T<time>"
JTimestamp(date) == [t |-> "ts", date |-> date]

\* a str of nanoseconds since the epoch whose local date is date
JNanos(date) == [t |-> "nanos", date |-> date]

IsDict(v) == v.t = "dict"

IsList(v) == v.t = "list"

IsStrVal(v) == v.t \in {"str", "numstr", "amtstr", "b64", "ts", "nanos"}

\* key in d
Has(d, key) == \E i \in 1..Len(d.items) : d.items[i][1] = key

\* d[key]
At(d, key) == d.items[CHOOSE i \in 1..Len(d.items) : d.items[i][1] = key][2]

\* d.get(key, default)
GetOr(d, key, default) == IF Has(d, key) THEN At(d, key) ELSE default

\* d.get(key)
Get(d, key) == GetOr(d, key, JNull)

EmptyDict == JDict(<<>>)

\* bool(v)
Truthy(v) ==
  CASE v.t = "null"   -> FALSE
    [] v.t = "str"    -> v.s # ""
    [] v.t = "int"    -> v.i # 0
    [] v.t = "dict"   -> v.items # <<>>
    [] v.t = "list"   -> v.elems # <<>>
    [] OTHER          -> TRUE

\* a or b
Or(a, b) == IF Truthy(a) THEN a ELSE b

\* int(v) succeeds
IntOk(v) == v.t \in {"numstr", "int"}

\* int(v)
IntOf(v) == v.i

\* str(v).isdigit()
IsDigit(v) == v.t \in {"numstr", "int"} /\ v.i >= 0

\* the text of a value stored in a row column
Text(v) ==
  CASE v.t = "str"  -> v.s
    [] v.t = "null" -> "<None>"
    [] OTHER        -> "<non-str>"

(***************************************************************************)
(* Address shapes                                                          *)
(***************************************************************************)
\* the DAO's own contract address: osmo1 + 58 characters
AddrDao == "osmo1dao"

\* a wallet: osmo1 + 38 characters
AddrAlice == "osmo1alice"

\* a second wallet
AddrBob == "osmo1bob"

\* another contract: osmo1 + 58 characters
AddrVest == "osmo1vesting"

\* an address of another chain
AddrCosmos == "cosmos1carol"

AddrLen(a) ==
  CASE a = AddrDao    -> 63
    [] a = AddrVest   -> 63
    [] a = AddrAlice  -> 43
    [] a = AddrBob    -> 43
    [] a = AddrCosmos -> 45
    [] OTHER          -> 0

\* a.startswith('osmo1')
StartsWithOsmo1(a) == a \in {AddrDao, AddrVest, AddrAlice, AddrBob}

\* re.fullmatch(r'osmo1[a-z0-9]{38,58}', a)
MatchesAddrRegex(a) == StartsWithOsmo1(a) /\ AddrLen(a) \in 43..63

\* re.findall over the text of a value: the string leaves in document order
RECURSIVE Leaves(_)
RECURSIVE LeavesOfSeq(_, _, _)
Leaves(v) ==
  CASE v.t = "dict" -> LeavesOfSeq(v.items, 1, TRUE)
    [] v.t = "list" -> LeavesOfSeq(v.elems, 1, FALSE)
    [] OTHER        -> <<v>>

LeavesOfSeq(xs, i, isItems) ==
  IF i > Len(xs) THEN <<>>
  ELSE Leaves(IF isItems THEN xs[i][2] ELSE xs[i]) \o LeavesOfSeq(xs, i + 1, isItems)

\* re.findall(r'osmo1[a-z0-9]{38,58}', text)
FindAddresses(v) ==
  LET ls == Leaves(v)
  IN  SelectSeq(ls, LAMBDA x : x.t = "str" /\ MatchesAddrRegex(x.s))

\* re.findall(r'\d+uosmo', text)
FindAmounts(v) ==
  LET ls == Leaves(v)
  IN  SelectSeq(ls, LAMBDA x : x.t = "amtstr")

(***************************************************************************)
(* Rows of all_payments                                                    *)
(***************************************************************************)
NaN == "NaN"

\* the columns every extractor fills in
BaseRow(ctx) ==
  [ProposalID |-> ctx.proposal_id, ProposalTitle |-> ctx.proposal_title,
   ProposalText |-> ctx.proposal_text, ProposalDate |-> ctx.proposal_date,
   SubUnit |-> ctx.subunit_name, SubUnitAddress |-> ctx.subunit_address,
   Recipient |-> "", AmountRaw |-> 0, Denom |-> "", MessageType |-> "",
   ContractMethod |-> NaN, ContractAddress |-> NaN, ContractTitle |-> NaN,
   ContractOwner |-> NaN, TransactionCategory |-> NaN]

\* the result of a handler: the rows appended, and whether its try block raised
Done(pays) == [pays |-> pays, raised |-> FALSE]

Failed(pays) == [pays |-> pays, raised |-> TRUE]

(***************************************************************************)
(* process_bank_message                                                    *)
(***************************************************************************)
BankRow(ctx, to_address, coin) ==
  [BaseRow(ctx) EXCEPT !.Recipient = Text(to_address),
                       !.AmountRaw = IntOf(GetOr(coin, "amount", JNumStr(0))),
                       !.Denom = Text(GetOr(coin, "denom", JStr(""))),
                       !.MessageType = "bank_send"]

\* for coin in amount
RECURSIVE BankCoins(_, _, _, _, _)
BankCoins(ctx, to_address, amount, i, pays) ==
  IF i > Len(amount) THEN Done(pays)
  ELSE LET coin == amount[i]
       IN  IF ~IsDict(coin) \/ ~IntOk(GetOr(coin, "amount", JNumStr(0)))
           THEN Failed(pays)
           ELSE BankCoins(ctx, to_address, amount, i + 1,
                          Append(pays, BankRow(ctx, to_address, coin)))

ProcessBankMessage(bank_msg, ctx) ==
  IF ~IsDict(bank_msg) THEN Failed(<<>>)
  ELSE IF ~Has(bank_msg, "send") THEN Done(<<>>)
  ELSE LET send_msg == At(bank_msg, "send")
       IN  IF ~IsDict(send_msg) THEN Failed(<<>>)
           ELSE LET to_address == GetOr(send_msg, "to_address", JStr(""))
                    amount     == GetOr(send_msg, "amount", JList(<<>>))
                IN  IF ~IsList(amount) THEN Failed(<<>>)
                    ELSE BankCoins(ctx, to_address, amount.elems, 1, <<>>)

(***************************************************************************)
(* _decode_wasm_message, _extract_method_name                              *)
(***************************************************************************)
\* a decoder that lets the decoding error out instead of returning {}
DecodeWasmMessageUncaught(msg) ==
  IF msg.t = "b64" THEN (IF msg.ok THEN msg.doc ELSE JNull)
  ELSE IF msg.t \in {"str", "numstr", "amtstr", "ts", "nanos"} THEN JNull
  ELSE IF msg.t = "dict" THEN msg
  ELSE JStr("")

DecodeWasmMessage(msg) ==
  IF msg.t = "b64" THEN (IF msg.ok THEN msg.doc ELSE EmptyDict)
  ELSE IF IsStrVal(msg) THEN EmptyDict
  ELSE IF IsDict(msg) THEN msg
  ELSE EmptyDict

ExtractMethodName(decoded_msg) ==
  IF decoded_msg.items = <<>> THEN "" ELSE decoded_msg.items[1][1]

(***************************************************************************)
(* _extract_recursive_payments, _parse_contract_execution                  *)
(***************************************************************************)
\* the columns of base_payment: no 'Proposal Title', no 'Proposal Date'
ContractBaseRow(ctx, message_type, method_name, contract) ==
  [BaseRow(ctx) EXCEPT !.ProposalTitle = NaN, !.ProposalDate = NaNDate,
                       !.MessageType = message_type,
                       !.ContractMethod = method_name,
                       !.ContractAddress = Text(contract)]

amount_keys == <<"amount", "total", "value", "sum">>

\* the first amount key of data that holds digits, or 0
FirstAmountKey(data) ==
  LET hits == {i \in 1..Len(amount_keys) :
                 Has(data, amount_keys[i]) /\ IsDigit(At(data, amount_keys[i]))}
  IN  IF hits = {} THEN 0 ELSE CHOOSE i \in hits : \A j \in hits : i <= j

RecipientHit(data, key, value, base_payment) ==
  IF /\ key \in {"recipient", "to", "beneficiary"}
     /\ value.t = "str"
     /\ StartsWithOsmo1(value.s)
     /\ FirstAmountKey(data) # 0
  THEN <<[base_payment EXCEPT !.Recipient = value.s,
                              !.AmountRaw = IntOf(At(data, amount_keys[FirstAmountKey(data)])),
                              !.Denom = "uosmo"]>>
  ELSE <<>>

RECURSIVE ExtractRecursivePayments(_, _)
RECURSIVE ExtractFromItems(_, _, _)
RECURSIVE ExtractFromElems(_, _, _)
ExtractRecursivePayments(data, base_payment) ==
  CASE data.t = "dict" -> ExtractFromItems(data, 1, base_payment)
    [] data.t = "list" -> ExtractFromElems(data.elems, 1, base_payment)
    [] OTHER           -> <<>>

ExtractFromItems(data, i, base_payment) ==
  IF i > Len(data.items) THEN <<>>
  ELSE RecipientHit(data, data.items[i][1], data.items[i][2], base_payment)
       \o ExtractRecursivePayments(data.items[i][2], base_payment)
       \o ExtractFromItems(data, i + 1, base_payment)

ExtractFromElems(elems, i, base_payment) ==
  IF i > Len(elems) THEN <<>>
  ELSE ExtractRecursivePayments(elems[i], base_payment)
       \o ExtractFromElems(elems, i + 1, base_payment)

\* str(denom_info) or denom_info['native']
DenomOf(denom_info) ==
  IF IsDict(denom_info) /\ Has(denom_info, "native")
  THEN Text(At(denom_info, "native"))
  ELSE "<non-str>"

\* the 'instantiate_native_payroll_contract' branch of _parse_contract_execution
ContractInstantiateRows(method_data, method_name, contract, ctx) ==
  LET instantiate_data == GetOr(method_data, "instantiate_msg", EmptyDict)
      recipient    == GetOr(instantiate_data, "recipient", JStr(""))
      total_amount == GetOr(instantiate_data, "total", JNumStr(0))
      denom_info   == GetOr(instantiate_data, "denom", EmptyDict)
  IN  IF Truthy(recipient) /\ Truthy(total_amount) /\ IsDigit(total_amount)
      THEN <<[ContractBaseRow(ctx, "contract_instantiate", method_name, contract)
                EXCEPT !.Recipient = Text(recipient),
                       !.AmountRaw = IntOf(total_amount),
                       !.Denom = DenomOf(denom_info),
                       !.ContractTitle = Text(GetOr(instantiate_data, "title", JStr(""))),
                       !.ContractOwner = Text(GetOr(instantiate_data, "owner", JStr("")))]>>
      ELSE <<>>

\* every exception is swallowed; the rows appended before it are returned
ParseContractExecution(decoded_msg, contract, ctx) ==
  LET method_name == ExtractMethodName(decoded_msg)
      method_data == GetOr(decoded_msg, method_name, EmptyDict)
      payroll     == Has(decoded_msg, "instantiate_native_payroll_contract")
  IN  IF payroll /\ ~IsDict(method_data) THEN <<>>
      ELSE IF payroll /\ ~IsDict(GetOr(method_data, "instantiate_msg", EmptyDict)) THEN <<>>
      ELSE (IF payroll
            THEN ContractInstantiateRows(method_data, method_name, contract, ctx)
            ELSE <<>>)
           \o ExtractRecursivePayments(method_data,
                ContractBaseRow(ctx, "wasm_contract_call", method_name, contract))

(***************************************************************************)
(* process_wasm_message                                                    *)
(***************************************************************************)
\* a row for one coin of funds, addressed to the contract
FundRow(ctx, fund, contract, message_type, method) ==
  [BaseRow(ctx) EXCEPT !.Recipient = Text(contract),
                       !.AmountRaw = IntOf(GetOr(fund, "amount", JNumStr(0))),
                       !.Denom = Text(GetOr(fund, "denom", JStr(""))),
                       !.MessageType = message_type,
                       !.ContractMethod = method,
                       !.ContractAddress = Text(contract)]

\* for fund in funds, in the 'stake' branch and in the trailing funds loop
RECURSIVE FundRows(_, _, _, _, _, _, _, _)
FundRows(ctx, funds, i, contract, message_type, method, category, pays) ==
  IF i > Len(funds) THEN Done(pays)
  ELSE LET fund == funds[i]
       IN  IF ~IsDict(fund) \/ ~IntOk(GetOr(fund, "amount", JNumStr(0)))
           THEN Failed(pays)
           ELSE FundRows(ctx, funds, i + 1, contract, message_type, method, category,
                  Append(pays, [FundRow(ctx, fund, contract, message_type, method)
                                  EXCEPT !.TransactionCategory = category]))

\* the 'instantiate_native_payroll_contract' branch of the items loop
PayrollRows(ctx, key, value, contract, pays) ==
  LET inst_msg == GetOr(value, "instantiate_msg", EmptyDict)
  IN  IF ~IsDict(inst_msg) THEN Failed(pays)
      ELSE LET recipient == Get(inst_msg, "recipient")
               total     == Get(inst_msg, "total")
               denom_env == GetOr(inst_msg, "denom", EmptyDict)
           IN  IF ~IsDict(denom_env) THEN Failed(pays)
               ELSE IF Truthy(recipient) /\ Truthy(total)
               THEN Done(Append(pays,
                      [BaseRow(ctx) EXCEPT
                         !.Recipient = Text(recipient),
                         !.AmountRaw = IF IsDigit(total) THEN IntOf(total) ELSE 0,
                         !.Denom = Text(GetOr(denom_env, "native", JStr("token"))),
                         !.MessageType = "wasm_instantiate_native_payroll_contract",
                         !.ContractMethod = key,
                         !.ContractAddress = Text(contract)]))
               ELSE Done(pays)

\* for key, value in decoded_msg.items()
\* lines 276-298: the payroll branch for one item of decoded_msg
PayrollItem(ctx, key, value, contract, pays) ==
  IF key = "instantiate_native_payroll_contract" /\ IsDict(value)
  THEN PayrollRows(ctx, key, value, contract, pays)
  ELSE Done(pays)

\* lines 300-324: the stake branch for one item of decoded_msg
StakeItem(ctx, key, value, contract, funds, r) ==
  IF r.raised THEN r
  ELSE IF key = "stake" /\ IsDict(value)
  THEN (IF IsList(funds)
        THEN FundRows(ctx, funds.elems, 1, contract, "wasm_stake", key, "Staking", r.pays)
        ELSE Failed(r.pays))
  ELSE r

RECURSIVE WasmItems(_, _, _, _, _, _)
RECURSIVE WasmNextItem(_, _, _, _, _, _)
WasmItems(ctx, decoded_msg, i, contract, funds, pays) ==
  IF i > Len(decoded_msg.items) THEN Done(pays)
  ELSE WasmNextItem(ctx, decoded_msg, i, contract, funds,
         StakeItem(ctx, decoded_msg.items[i][1], decoded_msg.items[i][2], contract, funds,
           PayrollItem(ctx, decoded_msg.items[i][1], decoded_msg.items[i][2], contract, pays)))

\* the loop goes on unless the item raised
WasmNextItem(ctx, decoded_msg, i, contract, funds, r) ==
  IF r.raised THEN r
  ELSE WasmItems(ctx, decoded_msg, i + 1, contract, funds, r.pays)

transfer_types == <<"transfer", "send">>

\* for transfer_type in ['transfer', 'send']
RECURSIVE WasmTransfers(_, _, _, _, _)
WasmTransfers(ctx, decoded_msg, i, contract, pays) ==
  IF i > Len(transfer_types) THEN Done(pays)
  ELSE LET transfer_type == transfer_types[i]
       IN  IF ~Has(decoded_msg, transfer_type)
           THEN WasmTransfers(ctx, decoded_msg, i + 1, contract, pays)
           ELSE IF ~IsDict(At(decoded_msg, transfer_type)) THEN Failed(pays)
           ELSE LET rec == Get(At(decoded_msg, transfer_type), "recipient")
                    amt == Get(At(decoded_msg, transfer_type), "amount")
                IN  IF Truthy(rec) /\ Truthy(amt)
                    THEN WasmTransfers(ctx, decoded_msg, i + 1, contract,
                           Append(pays,
                             [BaseRow(ctx) EXCEPT
                                !.Recipient = Text(rec),
                                !.AmountRaw = IF IsDigit(amt) THEN IntOf(amt) ELSE 0,
                                !.Denom = "token",
                                !.MessageType = IF transfer_type = "transfer"
                                                THEN "wasm_transfer" ELSE "wasm_send",
                                !.ContractMethod = transfer_type,
                                !.ContractAddress = Text(contract)]))
                    ELSE WasmTransfers(ctx, decoded_msg, i + 1, contract, pays)

\* the trailing "for fund in funds" loop
WasmFunds(ctx, decoded_msg, contract, funds, pays) ==
  IF ~IsList(funds) THEN Failed(pays)
  ELSE FundRows(ctx, funds.elems, 1, contract, "wasm_execute_funds",
                ExtractMethodName(decoded_msg), NaN, pays)

\* lines 326-347 follow the item loop unless it raised
ThenTransfers(ctx, decoded_msg, contract, r) ==
  IF r.raised THEN r ELSE WasmTransfers(ctx, decoded_msg, 1, contract, r.pays)

\* lines 349-351 follow unless the transfers raised
ThenContract(ctx, decoded_msg, contract, r) ==
  IF r.raised THEN r
  ELSE Done(r.pays \o ParseContractExecution(decoded_msg, contract, ctx))

\* lines 353-376 follow unless something before raised
ThenFunds(ctx, decoded_msg, contract, funds, r) ==
  IF r.raised THEN r ELSE WasmFunds(ctx, decoded_msg, contract, funds, r.pays)

ProcessWasmMessage(wasm_msg, ctx) ==
  IF ~IsDict(wasm_msg) THEN Failed(<<>>)
  ELSE IF ~Has(wasm_msg, "execute") THEN Done(<<>>)
  ELSE IF ~IsDict(At(wasm_msg, "execute")) THEN Failed(<<>>)
  ELSE LET execute_msg == At(wasm_msg, "execute")
           contract    == Or(GetOr(execute_msg, "contract", JStr("")),
                             GetOr(execute_msg, "contract_addr", JStr("")))
           msg         == GetOr(execute_msg, "msg", EmptyDict)
           funds       == GetOr(execute_msg, "funds", JList(<<>>))
           decoded_msg == DecodeWasmMessage(msg)
       IN  IF ~IsDict(decoded_msg) THEN Failed(<<>>)
           ELSE ThenFunds(ctx, decoded_msg, contract, funds,
                  ThenContract(ctx, decoded_msg, contract,
                    ThenTransfers(ctx, decoded_msg, contract,
                      WasmItems(ctx, decoded_msg, 1, contract, funds, <<>>))))

(***************************************************************************)
(* process_stargate_message, process_other_message                         *)
(***************************************************************************)
\* one row per matched address other than the source address, all with amounts[0]
RECURSIVE RegexRows(_, _, _, _, _)
RegexRows(ctx, addresses, i, amount0, message_type) ==
  IF i > Len(addresses) THEN <<>>
  ELSE (IF addresses[i].s # ctx.subunit_address
        THEN <<[BaseRow(ctx) EXCEPT !.Recipient = addresses[i].s,
                                    !.AmountRaw = amount0,
                                    !.Denom = "uosmo",
                                    !.MessageType = message_type]>>
        ELSE <<>>)
       \o RegexRows(ctx, addresses, i + 1, amount0, message_type)

ProcessStargateMessage(stargate_msg, ctx) ==
  IF ~IsDict(stargate_msg) THEN Failed(<<>>)
  ELSE LET value == GetOr(stargate_msg, "value", JStr(""))
       IN  IF ~Truthy(value) THEN Done(<<>>)
           ELSE IF value.t # "b64" \/ ~value.ok THEN Done(<<>>)
           ELSE LET addresses == FindAddresses(value.doc)
                    amounts   == FindAmounts(value.doc)
                IN  IF addresses # <<>> /\ amounts # <<>>
                    THEN Done(RegexRows(ctx, addresses, 1, amounts[1].i, "stargate"))
                    ELSE Done(<<>>)

ProcessOtherMessage(msg, ctx) ==
  LET addresses == FindAddresses(msg)
      amounts   == FindAmounts(msg)
  IN  IF addresses # <<>> /\ amounts # <<>>
      THEN Done(RegexRows(ctx, addresses, 1, amounts[1].i, "other"))
      ELSE Done(<<>>)

(***************************************************************************)
(* _extract_proposal_date                                                  *)
(***************************************************************************)
\* date - timedelta(days=1)
PrevDay(x) ==
  IF x.d > 1 THEN YMD(x.y, x.m, x.d - 1)
  ELSE IF x.m > 1 THEN YMD(x.y, x.m - 1, DaysInMonth(x.y, x.m - 1))
  ELSE YMD(x.y - 1, 12, 31)

RECURSIVE MinusDays(_, _)
MinusDays(x, n) == IF n = 0 THEN x ELSE MinusDays(PrevDay(x), n - 1)

\* the days subtracted from the expiration time
ExpirationLead == 7

ExtractProposalDate(proposal, time) ==
  IF ~IsDict(proposal) THEN time
  ELSE IF Has(proposal, "created_at") /\ At(proposal, "created_at").t = "ts"
  THEN At(proposal, "created_at").date
  ELSE IF /\ Has(proposal, "expiration")
          /\ IsDict(At(proposal, "expiration"))
          /\ Has(At(proposal, "expiration"), "at_time")
          /\ At(At(proposal, "expiration"), "at_time").t = "nanos"
  THEN MinusDays(At(At(proposal, "expiration"), "at_time").date, ExpirationLead)
  ELSE time

(***************************************************************************)
(* extract_payments_from_proposal                                          *)
(***************************************************************************)
\* lines 147-153: the payload of a message
Inner(msg) ==
  IF Has(msg, "wasm") \/ Has(msg, "bank") \/ Has(msg, "stargate") THEN msg
  ELSE Or(Or(Get(msg, "msg"), Get(msg, "value")), msg)

\* a dispatch that runs the handler of every wrapper key the message has
DispatchEvery(msg, ctx) ==
  Done((IF Has(Inner(msg), "stargate")
        THEN ProcessStargateMessage(At(Inner(msg), "stargate"), ctx).pays ELSE <<>>)
       \o (IF Has(Inner(msg), "bank")
           THEN ProcessBankMessage(At(Inner(msg), "bank"), ctx).pays ELSE <<>>)
       \o (IF Has(Inner(msg), "wasm")
           THEN ProcessWasmMessage(At(Inner(msg), "wasm"), ctx).pays ELSE <<>>))

\* lines 156-164: the handler chosen for one message
Dispatch(msg, ctx) ==
  LET inner == Inner(msg)
  IN  IF IsDict(inner) /\ Has(inner, "stargate")
      THEN ProcessStargateMessage(At(inner, "stargate"), ctx)
      ELSE IF IsDict(inner) /\ Has(inner, "bank")
      THEN ProcessBankMessage(At(inner, "bank"), ctx)
      ELSE IF IsDict(inner) /\ Has(inner, "wasm")
      THEN ProcessWasmMessage(At(inner, "wasm"), ctx)
      ELSE ProcessOtherMessage(IF IsDict(inner) THEN inner ELSE msg, ctx)

\* payments.extend(...) with the result r of the handler of message i
Extend(acc, r, i) ==
  [pays |-> acc.pays \o r.pays,
   raised_at |-> IF acc.raised_at = 0 /\ r.raised THEN i ELSE acc.raised_at]

\* for msg in msgs: pays is the list so far, raised_at the index of the first
\* message whose handler raised (0 when none did)
RECURSIVE ScanMessages(_, _, _, _)
ScanMessages(msgs, i, ctx, acc) ==
  IF i > Len(msgs) THEN acc
  ELSE IF ~IsDict(msgs[i]) THEN ScanMessages(msgs, i + 1, ctx, acc)
  ELSE ScanMessages(msgs, i + 1, ctx, Extend(acc, Dispatch(msgs[i], ctx), i))

\* lines 129-140: the message list of a proposal
MessageList(proposal, proposal_obj) ==
  LET m1 == IF IsDict(proposal_obj)
            THEN Or(Or(Get(proposal_obj, "msgs"), Get(proposal_obj, "messages")),
                    GetOr(proposal_obj, "msgs", JList(<<>>)))
            ELSE JList(<<>>)
      m2 == IF ~Truthy(m1) THEN Or(Or(Get(proposal, "msgs"), Get(proposal, "messages")), JList(<<>>))
            ELSE m1
  IN  IF IsDict(m2) THEN <<m2>>
      ELSE IF IsList(m2) THEN m2.elems
      ELSE <<>>

\* lines 112-126: the provenance columns of a proposal's rows
Context(proposal, subunit_name, subunit_address, time) ==
  LET proposal_obj == IF IsDict(Get(proposal, "proposal")) THEN At(proposal, "proposal")
                      ELSE proposal
      title == Text(GetOr(proposal_obj, "title", JStr("")))
      description == Text(GetOr(proposal_obj, "description", JStr("")))
  IN  [proposal_id |-> Text(Or(Or(Or(Get(proposal, "id"), Get(proposal, "proposal_id")),
                                  Get(proposal, "proposalId")), JStr("Unknown"))),
       proposal_title |-> title,
       proposal_text |-> <<title, description>>,
       proposal_date |-> ExtractProposalDate(proposal, time),
       subunit_name |-> subunit_name,
       subunit_address |-> subunit_address]

\* lines 115-118
ProposalObj(proposal) ==
  IF IsDict(Get(proposal, "proposal")) THEN At(proposal, "proposal") ELSE proposal

\* return payments, after a scan that got into the message loop
Returned(r) ==
  [pays |-> r.pays, raised |-> FALSE, raised_at |-> r.raised_at, crash |-> FALSE]

\* the outcome of extract_payments_from_proposal:
\*   pays      the list returned
\*   raised    the try block of the scan raised before the message loop
\*   raised_at the index of the first message whose handler raised, or 0
\*   crash     the except handler itself raised: proposal_id is unbound when
\*             the first statement of the try block fails and debug is on
ExtractPaymentsFromProposal(proposal, subunit_name, subunit_address, time, debug_on) ==
  IF ~IsDict(proposal)
  THEN [pays |-> <<>>, raised |-> TRUE, raised_at |-> 0, crash |-> debug_on]
  ELSE Returned(ScanMessages(MessageList(proposal, ProposalObj(proposal)), 1,
                             Context(proposal, subunit_name, subunit_address, time),
                             [pays |-> <<>>, raised_at |-> 0]))

(***************************************************************************)
(* Normalisation: _adjust_amount, _get_token_symbol, payment type          *)
(***************************************************************************)
uscrt == <<"u","s","c","r","t">>

secret == <<"s","e","c","r","e","t">>

uosmosis == <<"u","o","s","m","o","s","i","s">>

upage == <<"u","p","a","g","e">>

\* the characters of the denom strings that occur in the inputs
Chars(denom) ==
  CASE denom = "uosmo"    -> uosmo
    [] denom = "uscrt"    -> uscrt
    [] denom = "upage"    -> upage
    [] denom = "token"    -> token
    [] denom = "ibc/ATOM" -> ibcAtom
    [] OTHER              -> <<>>

\* token_data is the list of items <<denom, [symbol, decimals]>> in insertion order
HasToken(token_data, denom) == \E i \in 1..Len(token_data) : token_data[i][1] = denom

TokenInfo(token_data, denom) ==
  token_data[CHOOSE i \in 1..Len(token_data) : token_data[i][1] = denom][2]

\* an adjustment by the six decimals of uosmo, whatever the denom
AdjustAmountSixDecimals(row, token_data) == Rat(row.AmountRaw, Pow10(6))

\* an adjustment that ignores the decimals
AdjustAmountUnscaled(row, token_data) == Rat(row.AmountRaw, 1)

AdjustAmount(row, token_data) ==
  LET decimals == IF HasToken(token_data, row.Denom)
                  THEN TokenInfo(token_data, row.Denom).decimals ELSE 0
  IN  IF decimals > 0 THEN Rat(row.AmountRaw, Pow10(decimals))
      ELSE Rat(row.AmountRaw, 1)

\* lines 563-572: the first registry item whose symbol or key occurs in the denom
FirstRegistryMatch(token_data, d) ==
  LET hits == {i \in 1..Len(token_data) :
                 /\ IsStr(token_data[i][2].symbol)
                 /\ token_data[i][2].symbol # <<>>
                 /\ \/ Contains(StrUpper(d), StrUpper(token_data[i][2].symbol))
                    \/ Contains(StrUpper(d), StrUpper(Chars(token_data[i][1])))}
  IN  IF hits = {} THEN 0 ELSE CHOOSE i \in hits : \A j \in hits : i <= j

GetTokenSymbol(denom, token_data) ==
  IF denom = "" \/ denom \in {"<None>", "<non-str>"} THEN <<>>
  ELSE IF HasToken(token_data, denom) /\ TokenInfo(token_data, denom).symbol # <<>>
  THEN TokenInfo(token_data, denom).symbol
  ELSE LET d  == Strip(Chars(denom))
           dl == StrLower(d)
       IN  IF dl \in {uosmo, uosmosis} THEN OSMO
           ELSE IF Contains(dl, scrt) \/ Contains(dl, secret) THEN SCRT
           ELSE IF FirstRegistryMatch(token_data, d) # 0
           THEN StrUpper(token_data[FirstRegistryMatch(token_data, d)][2].symbol)
           ELSE IF Len(d) <= 8 /\ IsAlpha(d) THEN StrUpper(d)
           ELSE d

PaymentType(recipient, core_team_addresses) ==
  IF recipient \in core_team_addresses THEN "Core Team" ELSE "Regular"

\* lines 70-76: the three columns added before valuation
Normalize(row, token_data, core_team_addresses) ==
  [ProposalID |-> row.ProposalID, ProposalTitle |-> row.ProposalTitle,
   ProposalText |-> row.ProposalText, ProposalDate |-> row.ProposalDate,
   SubUnit |-> row.SubUnit, SubUnitAddress |-> row.SubUnitAddress,
   Recipient |-> row.Recipient, AmountRaw |-> row.AmountRaw, Denom |-> row.Denom,
   MessageType |-> row.MessageType, ContractMethod |-> row.ContractMethod,
   ContractAddress |-> row.ContractAddress, ContractTitle |-> row.ContractTitle,
   ContractOwner |-> row.ContractOwner, TransactionCategory |-> row.TransactionCategory,
   AdjustedAmount |-> AdjustAmount(row, token_data),
   DisplaySymbol |-> GetTokenSymbol(row.Denom, token_data),
   PaymentType |-> PaymentType(row.Recipient, core_team_addresses)]

(***************************************************************************)
(* Categorisation: _categorize_transaction, _tag_transaction,              *)
(* _categorize_amount, _classify_recipient                                 *)
(***************************************************************************)
CategorizeTransaction(row) ==
  LET amount == row.AdjustedAmount
      core == row.PaymentType = "Core Team"
  IN  IF RatGeq(amount, 10000)
      THEN (IF core THEN "Large Core Team Payment" ELSE "Large External Payment")
      ELSE IF RatGeq(amount, 1000)
      THEN (IF core THEN "Medium Core Team Payment" ELSE "Medium External Payment")
      ELSE IF RatGeq(amount, 100)
      THEN (IF core THEN "Small Core Team Payment" ELSE "Small External Payment")
      ELSE "Micro Payment"

\* buckets whose boundaries belong to the lower bucket
CategorizeAmountStrict(row) ==
  IF RatGt(row.AdjustedAmount, 100000) THEN "Very Large (100K+ OSMO)"
  ELSE IF RatGt(row.AdjustedAmount, 50000) THEN "Large (50K-100K OSMO)"
  ELSE IF RatGt(row.AdjustedAmount, 10000) THEN "Medium (10K-50K OSMO)"
  ELSE IF RatGt(row.AdjustedAmount, 1000) THEN "Small (1K-10K OSMO)"
  ELSE IF RatGt(row.AdjustedAmount, 100) THEN "Minor (100-1K OSMO)"
  ELSE "Micro (<100 OSMO)"

CategorizeAmount(row) ==
  LET amount == row.AdjustedAmount
  IN  IF RatGeq(amount, 100000) THEN "Very Large (100K+ OSMO)"
      ELSE IF RatGeq(amount, 50000) THEN "Large (50K-100K OSMO)"
      ELSE IF RatGeq(amount, 10000) THEN "Medium (10K-50K OSMO)"
      ELSE IF RatGeq(amount, 1000) THEN "Small (1K-10K OSMO)"
      ELSE IF RatGeq(amount, 100) THEN "Minor (100-1K OSMO)"
      ELSE "Micro (<100 OSMO)"

\* a recipient that is a str
IsStrRecipient(recipient) == recipient \notin {"<None>", "<non-str>"}

ClassifyRecipient(recipient) ==
  IF recipient = "" \/ ~IsStrRecipient(recipient) THEN "Unknown"
  ELSE IF StartsWithOsmo1(recipient)
  THEN (IF AddrLen(recipient) > 50 THEN "Smart Contract"
        ELSE IF AddrLen(recipient) = 63 THEN "Wallet Address"
        ELSE IF AddrLen(recipient) > 63 THEN "Smart Contract"
        ELSE "Wallet Address")
  ELSE "Other Address"

\* 'x' in message_type
TypeHas(message_type, word) ==
  CASE word = "bank"     -> message_type = "bank_send"
    [] word = "stargate" -> message_type = "stargate"
    [] word = "wasm"     -> message_type \in {"wasm_transfer", "wasm_send", "wasm_stake",
                               "wasm_execute_funds", "wasm_contract_call",
                               "wasm_instantiate_native_payroll_contract"}
    [] OTHER             -> FALSE

\* the list of tags, before ' | '.join
TagTransaction(row) ==
  LET amount == row.AdjustedAmount
  IN  (IF TypeHas(row.MessageType, "bank") THEN <<"Direct Transfer">>
       ELSE IF TypeHas(row.MessageType, "stargate") THEN <<"Protocol Operation">>
       ELSE IF TypeHas(row.MessageType, "wasm") THEN <<"Smart Contract">>
       ELSE <<>>)
      \o (IF RatGeq(amount, 50000) THEN <<"Major Expenditure">>
          ELSE IF RatGeq(amount, 10000) THEN <<"Significant Payment">>
          ELSE IF RatGeq(amount, 1000) THEN <<"Standard Payment">>
          ELSE IF RatGeq(amount, 100) THEN <<"Minor Payment">>
          ELSE <<"Micro Payment">>)
      \o (IF StartsWithOsmo1(row.Recipient)
          THEN (IF AddrLen(row.Recipient) > 50 THEN <<"Contract Address">>
                ELSE <<"Wallet Address">>)
          ELSE <<>>)

\* lines 79-85: the columns of the returned table
Finalize(row, usd_value) ==
  [ProposalID |-> row.ProposalID, ProposalTitle |-> row.ProposalTitle,
   ProposalText |-> row.ProposalText, ProposalDate |-> row.ProposalDate,
   SubUnit |-> row.SubUnit, SubUnitAddress |-> row.SubUnitAddress,
   Recipient |-> row.Recipient, AmountRaw |-> row.AmountRaw, Denom |-> row.Denom,
   MessageType |-> row.MessageType, ContractMethod |-> row.ContractMethod,
   ContractAddress |-> row.ContractAddress, ContractTitle |-> row.ContractTitle,
   ContractOwner |-> row.ContractOwner,
   AdjustedAmount |-> row.AdjustedAmount, DisplaySymbol |-> row.DisplaySymbol,
   PaymentType |-> row.PaymentType,
   USDValue |-> usd_value,
   TransactionCategory |-> CategorizeTransaction(row),
   TransactionTag |-> TagTransaction(row),
   AmountCategory |-> CategorizeAmount(row),
   RecipientType |-> ClassifyRecipient(row.Recipient)]

(***************************************************************************)
(* ReportGenerator.generate_amount_range_analysis: the order of the rows   *)
(***************************************************************************)
category_order ==
  <<"Very Large (100K+ OSMO)", "Large (50K-100K OSMO)", "Medium (10K-50K OSMO)",
    "Small (1K-10K OSMO)", "Minor (100-1K OSMO)", "Micro (<100 OSMO)">>

\* sort_mapping[cat], counted from 0
sort_mapping(cat) ==
  (CHOOSE i \in 1..Len(category_order) : category_order[i] = cat) - 1

(***************************************************************************)
(* ReportGenerator.generate_transaction_insights                           *)
(***************************************************************************)
\* processed_data[column].sum() from row i on, for the two numeric columns
RECURSIVE ColumnSum(_, _, _)
ColumnSum(processed_data, column, i) ==
  IF i > Len(processed_data) THEN Zero
  ELSE RatAdd(IF column = "Adjusted Amount" THEN processed_data[i].AdjustedAmount
              ELSE processed_data[i].USDValue,
              ColumnSum(processed_data, column, i + 1))

\* processed_data[processed_data['Payment Type'] == 'Core Team']
CoreTeamRows(processed_data) ==
  SelectSeq(processed_data, LAMBDA row : row.PaymentType = "Core Team")

\* (core_team_amount / total_amount * 100) if total_amount > 0 else 0
Percentage(core_team_amount, total_amount) ==
  IF total_amount.n > 0
  THEN RatMul(RatDiv(core_team_amount, total_amount), Rat(100, 1))
  ELSE Zero

\* lines 298-302: insights['core_team_percentage']
CoreTeamPercentage(processed_data) ==
  Percentage(ColumnSum(CoreTeamRows(processed_data), "Adjusted Amount", 1),
             ColumnSum(processed_data, "Adjusted Amount", 1))

(***************************************************************************)
(* Message counting for the diagnostics (lines 45-56)                      *)
(***************************************************************************)
CountMessages(proposal) ==
  LET proposal_obj == IF IsDict(proposal) /\ Has(proposal, "proposal")
                      THEN At(proposal, "proposal") ELSE proposal
      m1 == IF IsDict(proposal_obj)
            THEN Or(Or(Get(proposal_obj, "msgs"), Get(proposal_obj, "messages")), JList(<<>>))
            ELSE JList(<<>>)
      m2 == IF ~Truthy(m1) /\ IsDict(proposal)
            THEN Or(Or(Get(proposal, "msgs"), Get(proposal, "messages")), JList(<<>>))
            ELSE m1
  IN  IF IsDict(m2) THEN 1
      ELSE IF IsList(m2) THEN Len(m2.elems)
      ELSE 0

(***************************************************************************)
(* Inputs                                                                  *)
(***************************************************************************)
Jan01 == YMD(2024, 1, 1)

Jan02 == YMD(2024, 1, 2)

Jan03 == YMD(2024, 1, 3)

Jan31 == YMD(2024, 1, 31)

Mar01 == YMD(2024, 3, 1)

Coin(denom, amount) == JDict(<< <<"denom", JStr(denom)>>, <<"amount", amount>> >>)

BankSend(to_address, coins) ==
  JDict(<< <<"bank", JDict(<< <<"send",
     JDict(<< <<"to_address", to_address>>, <<"amount", JList(coins)>> >>)>> >>)>> >>)

WasmExecute(contract, msg, funds) ==
  JDict(<< <<"wasm", JDict(<< <<"execute",
     JDict(<< <<"contract", JStr(contract)>>, <<"msg", msg>>,
              <<"funds", JList(funds)>> >>)>> >>)>> >>)

Transfer(kind, recipient, amount) ==
  JDict(<< <<kind, JDict(<< <<"recipient", JStr(recipient)>>, <<"amount", amount>> >>)>> >>)

Payroll(recipient, total, denom) ==
  JDict(<< <<"instantiate_native_payroll_contract", JDict(<< <<"instantiate_msg",
     JDict(<< <<"recipient", JStr(recipient)>>, <<"total", total>>,
              <<"denom", JDict(<< <<"native", JStr(denom)>> >>)>>,
              <<"title", JStr("Grant")>>, <<"owner", JStr(AddrDao)>> >>)>> >>)>> >>)

Stake == JDict(<< <<"stake", EmptyDict>> >>)

Stargate(value) == JDict(<< <<"stargate", JDict(<< <<"value", value>> >>)>> >>)

Proposal(id, date_items, msgs_key, msgs) ==
  JDict(<< <<"id", id>>, <<"title", JStr("T")>> >> \o date_items
        \o << <<msgs_key, JList(msgs)>> >>)

CreatedAt(date) == << <<"created_at", JTimestamp(date)>> >>

ExpiresAt(date) == << <<"expiration", JDict(<< <<"at_time", JNanos(date)>> >>)>> >>

\* one bank send of 5000000 uosmo to a wallet
PBank == Proposal(JStr("1"), CreatedAt(Jan01), "msgs",
           <<BankSend(JStr(AddrAlice), <<Coin("uosmo", JNumStr(5000000))>>)>>)

\* a bank send whose recipient is the DAO itself
PBankSelf == Proposal(JStr("2"), CreatedAt(Jan02), "msgs",
           <<BankSend(JStr(AddrDao), <<Coin("uosmo", JNumStr(100))>>)>>)

\* a base64-encoded transfer with attached funds
PTransferFunds == Proposal(JStr("3"), CreatedAt(Jan02), "msgs",
           <<WasmExecute(AddrVest, JB64(TRUE, Transfer("transfer", AddrAlice, JNumStr(100))),
                         <<Coin("uscrt", JNumStr(50))>>)>>)

\* a transfer to an address of another chain, with attached funds
PTransferForeign == Proposal(JStr("4"), CreatedAt(Jan03), "msgs",
           <<WasmExecute(AddrVest, Transfer("send", AddrCosmos, JNumStr(100)),
                         <<Coin("uscrt", JNumStr(50))>>)>>)

\* staking the attached funds
PStake == Proposal(JStr("5"), CreatedAt(Jan01), "messages",
           <<WasmExecute(AddrDao, Stake, <<Coin("uosmo", JNumStr(200000000))>>)>>)

\* a payroll contract, the proposal nested under 'proposal'
PPayroll == JDict(<< <<"id", JStr("6")>>, <<"proposal",
           JDict(<< <<"title", JStr("T")>>, <<"description", JStr("D")>>,
                    <<"msgs", JList(<<WasmExecute(AddrVest,
                        Payroll(AddrBob, JNumStr(1000), "uosmo"), <<>>)>>)>> >>)>> >>)

\* a msg that is not base64, with attached funds; then a bank send
PBadBase64 == Proposal(JStr("7"), <<>>, "msgs",
           <<WasmExecute(AddrVest, JB64(FALSE, JNull), <<Coin("uosmo", JNumStr(70))>>),
             BankSend(JStr(AddrBob), <<Coin("uscrt", JNumStr(3000000))>>)>>)

\* an undecoded protocol message naming the DAO, a wallet and an amount
PStargate == Proposal(JStr("8"), ExpiresAt(Jan03), "msgs",
           <<Stargate(JB64(TRUE, JList(<<JStr(AddrDao), JStr(AddrAlice), JAmtStr(300)>>)))>>)

\* a message of no known kind
POther == Proposal(JNull, CreatedAt(GarbageDate), "msgs",
           <<JDict(<< <<"custom", JDict(<< <<"from", JStr(AddrDao)>>,
                      <<"to", JStr(AddrBob)>>, <<"memo", JAmtStr(7)>> >>)>> >>)>>)

\* a proposal that is not a dict
PNotDict == JStr("proposal")

\* a good message, then a bank send whose second coin has no parsable amount
PPartial == Proposal(JStr("10"), CreatedAt(Jan02), "msgs",
           <<BankSend(JStr(AddrAlice), <<Coin("uosmo", JNumStr(100))>>),
             BankSend(JStr(AddrBob), <<Coin("uosmo", JNumStr(5)), Coin("uosmo", JStr("abc"))>>)>>)

\* a bank send whose to_address is null
PNullRecipient == Proposal(JStr("11"), CreatedAt(Jan01), "msgs",
           <<BankSend(JNull, <<Coin("uosmo", JNumStr(100))>>)>>)

\* the message list under 'actions'
PActions == Proposal(JStr("12"), CreatedAt(Jan01), "actions",
           <<BankSend(JStr(AddrAlice), <<Coin("uosmo", JNumStr(100))>>)>>)

\* a zero-amount bank send of an unregistered denom
PZero == Proposal(JStr("13"), CreatedAt(Jan01), "msgs",
           <<BankSend(JStr(AddrCosmos), <<Coin("upage", JNumStr(0))>>)>>)

\* amounts that are no non-negative integers: a bank send whose first coin
\* is 'abc', a bank send of '-5', a transfer of 'abc'
PUnparsable == Proposal(JStr("14"), CreatedAt(Jan02), "msgs",
           <<BankSend(JStr(AddrAlice), <<Coin("uosmo", JStr("abc")), Coin("uosmo", JNumStr(5))>>),
             BankSend(JStr(AddrBob), <<Coin("uosmo", JNumStr(-5))>>),
             WasmExecute(AddrVest, Transfer("transfer", AddrAlice, JStr("abc")), <<>>)>>)

\* messages with several wrapper keys: stargate, bank and wasm in the first,
\* bank and wasm in the second; the third wraps a bank send under 'msg'
PMultiKey == Proposal(JStr("15"), CreatedAt(Jan03), "msgs",
           <<JDict(WasmExecute(AddrVest, Transfer("transfer", AddrBob, JNumStr(40)), <<>>).items
                   \o BankSend(JStr(AddrBob), <<Coin("uosmo", JNumStr(30))>>).items
                   \o Stargate(JB64(TRUE, JList(<<JStr(AddrAlice), JAmtStr(300)>>))).items),
             JDict(WasmExecute(AddrVest, Transfer("transfer", AddrBob, JNumStr(40)), <<>>).items
                   \o BankSend(JStr(AddrBob), <<Coin("uosmo", JNumStr(30))>>).items),
             JDict(<< <<"msg", BankSend(JStr(AddrAlice), <<Coin("uosmo", JNumStr(20))>>)>> >>)>>)

\* the proposals by name
ProposalNames ==
  {"PBank", "PBankSelf", "PTransferFunds", "PTransferForeign", "PStake", "PPayroll", "PBadBase64",
   "PStargate", "POther", "PNotDict", "PPartial", "PNullRecipient", "PActions", "PZero",
   "PUnparsable", "PMultiKey"}

ProposalNamed(name) ==
  CASE name = "PBank" -> PBank
    [] name = "PBankSelf" -> PBankSelf
    [] name = "PTransferFunds" -> PTransferFunds
    [] name = "PTransferForeign" -> PTransferForeign
    [] name = "PStake" -> PStake
    [] name = "PPayroll" -> PPayroll
    [] name = "PBadBase64" -> PBadBase64
    [] name = "PStargate" -> PStargate
    [] name = "POther" -> POther
    [] name = "PNotDict" -> PNotDict
    [] name = "PPartial" -> PPartial
    [] name = "PNullRecipient" -> PNullRecipient
    [] name = "PActions" -> PActions
    [] name = "PZero" -> PZero
    [] name = "PUnparsable" -> PUnparsable
    [] name = "PMultiKey" -> PMultiKey

\* the sub-units of the input, by name, and their addresses
SubUnitNames == {"Main DAO", "Ops"}

SubUnitAddress(name) == IF name = "Main DAO" THEN AddrDao ELSE AddrVest

\* the shapes of a sub-unit's entry: a list of proposals, an 'error' key,
\* or 'proposals': null
SubUnitShapes == {"list", "error", "null"}

Price(n, d) == Rat(n, d)

Entry(tok, date, price) == [token |-> tok, date |-> date, price |-> price]

\* attached_assets/combined_daily_prices_1756000184191.json
FileOsmo ==
  [found |-> TRUE,
   entries |-> <<Entry(OSMO, Jan01, Price(5, 4)), Entry(OSMO, Jan03, Price(2, 1)),
                 Entry(scrt, Jan01, Price(1, 2)), Entry(ATOM, Jan01, Price(10, 1)),
                 Entry(<<"o","s","m","o"," ">>, Jan31, Price(3, 2))>>]

FileMissing == [found |-> FALSE, entries |-> <<>>]

\* a file that prices the token "uosmo"
FileUosmo ==
  [found |-> TRUE,
   entries |-> <<Entry(uosmo, Jan01, Price(5, 4)), Entry(uosmo, Jan02, Price(5, 4)),
                 Entry(<<>>, Jan01, Price(1, 1))>>]

Info(symbol, decimals) == [symbol |-> symbol, decimals |-> decimals]

RegistryOsmo == << <<"uosmo", Info(OSMO, 6)>>, <<"ibc/ATOM", Info(ATOM, 6)>> >>

RegistryEmpty == <<>>

\* a registry with tokens of six, four and no decimals
RegistryScrt ==
  << <<"uosmo", Info(OSMO, 6)>>, <<"ibc/ATOM", Info(ATOM, 6)>>, <<"uscrt", Info(SCRT, 4)>>,
     <<"upage", Info(PAGE, 0)>> >>

\* a registry whose symbol for uosmo is the denom itself
RegistryUosmo == << <<"uosmo", Info(uosmo, 6)>> >>

\* the answers of the price service to one request
Responses ==
  {[kind |-> "ok", price |-> Price(1, 2)],
   [kind |-> "noprice", price |-> NoneNum],
   [kind |-> "badjson", price |-> NoneNum],
   [kind |-> "non200", price |-> NoneNum],
   [kind |-> "timeout", price |-> NoneNum]}

\* the constructor arguments, the pricing file, the debug checkbox, the clock,
\* and the proposals the indexer holds
Setups ==
  {[token_data |-> RegistryOsmo, file |-> FileOsmo, core |-> {AddrAlice},
    debug |-> FALSE, now |-> Jan02,
    proposals |-> {"PBank", "PBankSelf", "PTransferFunds", "PPartial"}],
   [token_data |-> RegistryEmpty, file |-> FileMissing, core |-> {},
    debug |-> TRUE, now |-> Jan03,
    proposals |-> {"PNotDict", "PStargate", "POther", "PMultiKey"}],
   [token_data |-> RegistryUosmo, file |-> FileUosmo, core |-> {AddrBob},
    debug |-> FALSE, now |-> Jan01,
    proposals |-> {"PBank", "PZero", "PNullRecipient", "PActions", "PNotDict"}],
   [token_data |-> RegistryScrt, file |-> FileOsmo, core |-> {},
    debug |-> FALSE, now |-> Jan02,
    proposals |-> {"PStake", "PPayroll", "PTransferForeign", "PBadBase64", "PUnparsable"}]}

(***************************************************************************)
(* The processor and one run of process_all_proposals                      *)
(***************************************************************************)
\* proposals scanned in one run
MaxProposals == 2

VARIABLES
  pc,                  \* where process_all_proposals is
  exception,           \* the exception that left process_all_proposals, if any
  indexer,             \* the names of the proposals the input may hold
  debug,               \* st.session_state['debug']
  now,                 \* the date datetime.now() gives
  token_data,          \* self.token_data
  core_team_addresses, \* self.core_team_addresses
  pricing_lookup,      \* self.pricing_lookup
  cg_cache,            \* self._cg_cache, and whether the attribute exists
  visited,             \* the sub-units the outer loop has taken
  subunit,             \* the sub-unit whose proposals are being scanned
  all_payments,        \* the list all_payments
  diagnostics,         \* the local diagnostics dict
  saved_diagnostics,   \* st.session_state['processing_diagnostics']
  df,                  \* the DataFrame before valuation
  usd,                 \* the 'USD Value' series as far as computed
  ledger,              \* the DataFrame returned
  insights,            \* what generate_transaction_insights returned for it
  detailed_report,     \* what generate_detailed_report returned for it
  pricing_file,        \* the pricing file the constructor reads
  threads,             \* the valuations running at once on the processor
  scans,               \* history: one entry per proposal scanned
  skipped,             \* history: the sub-units left out for their 'error' key
  requests             \* history: the requests sent to the price service

vars == <<pc, exception, indexer, debug, now, token_data, core_team_addresses, pricing_lookup, cg_cache,
          visited, subunit, all_payments, diagnostics, saved_diagnostics, df, usd, ledger,
          insights, detailed_report, pricing_file, threads, scans, skipped, requests>>

processor == <<indexer, debug, now, token_data, core_team_addresses, pricing_lookup>>

NoSubUnit == [name |-> "", address |-> ""]

NewDiagnostics == [subunits |-> <<>>, total_messages_scanned |-> 0, total_payments_extracted |-> 0]

NoDiagnostics == [subunits |-> <<>>, total_messages_scanned |-> -1, total_payments_extracted |-> -1]

NoCache == [exists |-> FALSE, map |-> << >>]

NoInsights == [made |-> FALSE, core_team_percentage |-> NoneNum]

NoReport == [made |-> FALSE, include_zero_usd |-> FALSE, rows |-> <<>>]

NoThreads == <<>>

\* DataProcessor.__init__ for one setup, and lines 27-32 of process_all_proposals
Init ==
  \E setup \in Setups :
    /\ pc = "subunits"
    /\ exception = ""
    /\ indexer = setup.proposals
    /\ debug = setup.debug
    /\ now = setup.now
    /\ token_data = setup.token_data
    /\ core_team_addresses = setup.core
    /\ pricing_lookup = LoadPricingData(setup.file)
    /\ cg_cache = NoCache
    /\ visited = {}
    /\ subunit = NoSubUnit
    /\ all_payments = <<>>
    /\ diagnostics = NewDiagnostics
    /\ saved_diagnostics = NoDiagnostics
    /\ df = <<>>
    /\ usd = <<>>
    /\ ledger = <<>>
    /\ insights = NoInsights
    /\ detailed_report = NoReport
    /\ pricing_file = setup.file
    /\ threads = NoThreads
    /\ scans = <<>>
    /\ skipped = {}
    /\ requests = <<>>

\* lines 34-39: the outer loop takes the next sub-unit of the input
NextSubUnit(name, shape) ==
  /\ pc = "subunits"
  /\ name \notin visited
  /\ visited' = visited \cup {name}
  /\ skipped' = IF shape = "error" THEN skipped \cup {name} ELSE skipped
  /\ CASE shape = "error" -> pc' = pc /\ subunit' = subunit /\ exception' = exception
       [] shape = "null"  -> /\ pc' = "crashed"
                             /\ exception' = "TypeError: 'NoneType' object is not iterable"
                             /\ subunit' = subunit
       [] OTHER           -> /\ pc' = "proposals"
                             /\ exception' = exception
                             /\ subunit' = [name |-> name, address |-> SubUnitAddress(name)]
  /\ UNCHANGED <<processor, detailed_report, pricing_file, threads,
                 cg_cache, all_payments, diagnostics, saved_diagnostics,
                 df, usd, ledger, insights, scans, requests>>

\* the history entry of one scanned proposal: its rows are
\* all_payments[first .. first + count - 1]
Scan(name, subunit_name, r, first) ==
  [name |-> name, subunit |-> subunit_name, raised |-> r.raised,
   raised_at |-> r.raised_at, first |-> first, count |-> Len(r.pays)]

\* lines 41-56: one iteration of the inner loop
ExtractProposal(name) ==
  /\ pc = "proposals"
  /\ Len(scans) < MaxProposals
  /\ \E proposal \in {ProposalNamed(name)} :
       \E r \in {ExtractPaymentsFromProposal(proposal, subunit.name, subunit.address,
                                             now, debug)} :
         IF r.crash
         THEN /\ pc' = "crashed"
              /\ exception' = "UnboundLocalError: proposal_id"
              /\ UNCHANGED <<all_payments, diagnostics, scans>>
         ELSE /\ pc' = pc
              /\ exception' = exception
              /\ all_payments' = all_payments \o r.pays
              /\ diagnostics' = [diagnostics EXCEPT !.total_messages_scanned =
                                   @ + CountMessages(proposal)]
              /\ scans' = Append(scans, Scan(name, subunit.name, r, Len(all_payments) + 1))
  /\ UNCHANGED <<processor, detailed_report, pricing_file, threads,
                 cg_cache, visited, subunit, saved_diagnostics,
                 df, usd, ledger, insights, skipped, requests>>

\* the inner loop ends
EndSubUnit ==
  /\ pc = "proposals"
  /\ pc' = "subunits"
  /\ subunit' = NoSubUnit
  /\ UNCHANGED <<exception, processor, detailed_report, pricing_file, threads,
                 cg_cache, visited, all_payments, diagnostics,
                 saved_diagnostics, df, usd, ledger, insights, scans, skipped, requests>>

\* lines 58-76: the outer loop ends; an empty table is returned at once,
\* otherwise the rows get their amounts, symbols and payment types
EndExtraction ==
  /\ pc = "subunits"
  /\ IF all_payments = <<>>
     THEN /\ pc' = "done"
          /\ diagnostics' = [diagnostics EXCEPT !.total_payments_extracted = 0]
          /\ saved_diagnostics' = diagnostics'
          /\ df' = <<>>
     ELSE /\ pc' = "value"
          /\ df' = [i \in 1..Len(all_payments) |->
                      Normalize(all_payments[i], token_data, core_team_addresses)]
          /\ UNCHANGED <<diagnostics, saved_diagnostics>>
  /\ UNCHANGED <<exception, processor, detailed_report, pricing_file, threads,
                 cg_cache, visited, subunit, all_payments, usd,
                 ledger, insights, scans, skipped, requests>>

\* a valuation that also writes the price it fetched into the price table
ValueRowStoringPrice(resp) ==
  /\ pc = "value"
  /\ Len(usd) < Len(df)
  /\ \E r \in {CalculateUsdValue(df[Len(usd) + 1], pricing_lookup, cg_cache, resp)} :
         IF r.raised
         THEN /\ pc' = "crashed"
              /\ exception' = "_calculate_usd_value"
              /\ UNCHANGED <<usd, cg_cache, requests, pricing_lookup>>
         ELSE /\ pc' = pc
              /\ exception' = exception
              /\ usd' = Append(usd, [value |-> r.usd, resolved |-> r.resolved,
                                     call |-> r.call, caught |-> r.caught])
              /\ cg_cache' = r.cache
              /\ requests' = requests \o r.call
              /\ pricing_lookup' =
                   IF r.call # <<>> /\ resp.kind = "ok"
                   THEN PutPrice(pricing_lookup, StrUpper(df[Len(usd) + 1].DisplaySymbol),
                                 df[Len(usd) + 1].ProposalDate, resp.price)
                   ELSE pricing_lookup
  /\ UNCHANGED <<indexer, debug, now, token_data, core_team_addresses, detailed_report,
                 pricing_file, threads, visited, subunit, all_payments, diagnostics,
                 saved_diagnostics, df, ledger, insights, scans, skipped>>

\* line 79: df.apply(self._calculate_usd_value) reaches the next row
ValueRow(resp) ==
  /\ pc = "value"
  /\ Len(usd) < Len(df)
  /\ \E r \in {CalculateUsdValue(df[Len(usd) + 1], pricing_lookup, cg_cache, resp)} :
         IF r.raised
         THEN /\ pc' = "crashed"
              /\ exception' = "_calculate_usd_value"
              /\ UNCHANGED <<usd, cg_cache, requests>>
         ELSE /\ pc' = pc
              /\ exception' = exception
              /\ usd' = Append(usd, [value |-> r.usd, resolved |-> r.resolved,
                                     call |-> r.call, caught |-> r.caught])
              /\ cg_cache' = r.cache
              /\ requests' = requests \o r.call
  /\ UNCHANGED <<processor, detailed_report, pricing_file, threads,
                 visited, subunit, all_payments, diagnostics,
                 saved_diagnostics, df, ledger, insights, scans, skipped>>

\* lines 81-94: the remaining columns; _tag_transaction calls
\* recipient.startswith and raises for a recipient that is not a str
Categorize ==
  /\ pc = "value"
  /\ Len(usd) = Len(df)
  /\ IF \E i \in 1..Len(df) : ~IsStrRecipient(df[i].Recipient)
     THEN /\ pc' = "crashed"
          /\ exception' = "AttributeError: startswith"
          /\ UNCHANGED <<ledger, diagnostics, saved_diagnostics>>
     ELSE /\ pc' = "done"
          /\ exception' = exception
          /\ ledger' = [i \in 1..Len(df) |-> Finalize(df[i], usd[i].value)]
          /\ diagnostics' = [diagnostics EXCEPT !.total_payments_extracted = Len(df)]
          /\ saved_diagnostics' = diagnostics'
  /\ UNCHANGED <<processor, detailed_report, pricing_file, threads,
                 cg_cache, visited, subunit, all_payments, df, usd,
                 insights, scans, skipped, requests>>

(***************************************************************************)
(* generate_detailed_report                                                *)
(***************************************************************************)
\* a < b for two numbers whose denominators are powers of ten
RatLess(a, b) ==
  \/ (a.n \div a.d) < (b.n \div b.d)
  \/ /\ (a.n \div a.d) = (b.n \div b.d)
     /\ \E l \in {(a.d \div Gcd(a.d, b.d)) * b.d} :
          (a.n % a.d) * (l \div a.d) < (b.n % b.d) * (l \div b.d)

\* the order of the sub-unit names as str
SubUnitRank(name) == IF name = "Main DAO" THEN 1 ELSE 2

\* a comes before b under by=['Sub-unit', 'Adjusted Amount'],
\* ascending=[True, False], missing amounts last
SortsBefore(a, b) ==
  \/ SubUnitRank(a.SubUnit) < SubUnitRank(b.SubUnit)
  \/ /\ SubUnitRank(a.SubUnit) = SubUnitRank(b.SubUnit)
     /\ IsNum(a.AdjustedAmount)
     /\ ~IsNum(b.AdjustedAmount) \/ RatLess(b.AdjustedAmount, a.AdjustedAmount)

\* row put into a sorted list behind the rows it does not come before
RECURSIVE InsertSorted(_, _)
InsertSorted(sorted, row) ==
  IF sorted = <<>> THEN <<row>>
  ELSE IF SortsBefore(row, Head(sorted)) THEN <<row>> \o sorted
  ELSE <<Head(sorted)>> \o InsertSorted(Tail(sorted), row)

\* lines 136-137: sort_values, which keeps the order of equal rows
RECURSIVE SortValues(_, _)
SortValues(rows, i) ==
  IF i = 0 THEN <<>> ELSE InsertSorted(SortValues(rows, i - 1), rows[i])

\* round(6) of an amount: one with at most six decimals is unchanged
Round6(a) ==
  IF ~IsNum(a) \/ 1000000 % a.d = 0 THEN a
  ELSE Rat((a.n \div a.d) * 1000000 + ((a.n % a.d) * 1000000 + a.d \div 2) \div a.d, 1000000)

\* pd.to_numeric(..., errors='coerce').fillna(0)
ToNumericOrZero(v) == IF IsNum(v) THEN v ELSE Zero

\* lines 146-147: the proposal date is neither missing nor ''
HasProposalDate(row) == row.ProposalDate \notin {NaNDate, EmptyDate}

\* lines 149-154: the rows kept for their USD value
KeptForUsd(row, include_zero_usd) ==
  include_zero_usd \/ RatGt(ToNumericOrZero(row.USDValue), 0)

\* a report that shows rows of every message type
ShownMessageTypeAny(row) == TRUE

\* lines 157-159: the message types shown
ShownMessageType(row) == row.MessageType # "wasm_execute_funds"

RECURSIVE SelectRows(_, _, _)
SelectRows(rows, i, include_zero_usd) ==
  IF i > Len(rows) THEN <<>>
  ELSE (IF /\ HasProposalDate(rows[i])
           /\ KeptForUsd(rows[i], include_zero_usd)
           /\ ShownMessageType(rows[i])
        THEN <<rows[i]>> ELSE <<>>)
       \o SelectRows(rows, i + 1, include_zero_usd)

\* lines 164-242: the columns of the report; the title falls back to the
\* proposal text, 'Proposal Title' not being among detailed_columns
ReportRow(row) ==
  [ProposalDate |-> row.ProposalDate, ProposalID |-> row.ProposalID,
   ProposalTitle |-> row.ProposalText, OrgUnit |-> row.SubUnit,
   USDValue |-> ToNumericOrZero(row.USDValue), Recipient |-> row.Recipient,
   RecipientType |-> row.RecipientType, message_type |-> row.MessageType,
   token_amount |-> Round6(row.AdjustedAmount), token_symbol |-> row.DisplaySymbol]

\* generate_detailed_report(processed_data, include_zero_usd)
DetailedReport(processed_data, include_zero_usd) ==
  LET selected == SelectRows(SortValues(processed_data, Len(processed_data)), 1,
                             include_zero_usd)
  IN  [i \in 1..Len(selected) |-> ReportRow(selected[i])]

\* app.py line 618: the detailed transactions table of a run's ledger
GenerateDetailedReport(include_zero_usd) ==
  /\ pc = "reported"
  /\ pc' = "detailed"
  /\ detailed_report' = [made |-> TRUE, include_zero_usd |-> include_zero_usd,
                         rows |-> DetailedReport(ledger, include_zero_usd)]
  /\ UNCHANGED <<exception, processor, pricing_file, threads, cg_cache, visited, subunit,
                 all_payments, diagnostics, saved_diagnostics, df, usd, ledger, insights,
                 scans, skipped, requests>>

\* app.py lines 418-425: the report of a table that is not empty
GenerateTransactionInsights ==
  /\ pc = "done"
  /\ ledger # <<>>
  /\ pc' = "reported"
  /\ insights' = [made |-> TRUE, core_team_percentage |-> CoreTeamPercentage(ledger)]
  /\ UNCHANGED <<exception, processor, detailed_report, pricing_file, threads,
                 cg_cache, visited, subunit, all_payments, diagnostics,
                 saved_diagnostics, df, usd, ledger, scans, skipped, requests>>

Next ==
  \/ \E name \in SubUnitNames, shape \in SubUnitShapes : NextSubUnit(name, shape)
  \/ \E name \in indexer : ExtractProposal(name)
  \/ EndSubUnit
  \/ EndExtraction
  \/ \E resp \in Responses : ValueRow(resp)
  \/ Categorize
  \/ GenerateTransactionInsights
  \/ \E include_zero_usd \in BOOLEAN : GenerateDetailedReport(include_zero_usd)

Spec == Init /\ [][Next]_vars

(***************************************************************************)
(* The valuation stage on its own: process_all_proposals at line 79 for an *)
(* input of one sub-unit with one proposal whose bank send carries up to   *)
(* MaxRows coins of one denom                                              *)
(***************************************************************************)
MaxRows == 2

Feb15 == YMD(2024, 2, 15)

\* three numeric parts that are no calendar date
BadCalendarDate == YMD(2024, 13, 45)

\* a file with gaps of weeks, a null price and a date that is no date
FileWide ==
  [found |-> TRUE,
   entries |-> <<Entry(OSMO, Jan01, Price(1, 1)), Entry(OSMO, Jan31, Price(3, 1)),
                 Entry(OSMO, Mar01, Price(4, 1)), Entry(ATOM, Jan03, NoneNum),
                 Entry(SCRT, GarbageDate, Price(2, 1)), Entry(SCRT, Jan01, Price(7, 1))>>]

UsdSymbols == {OSMO, osmo, uosmo, SCRT, PAGE, ibcAtom, token, NonStr}

UsdDates == {Jan01, Jan02, Jan03, Feb15, BadCalendarDate, GarbageDate, EmptyDate}

UsdFiles == {FileOsmo, FileWide, FileMissing}

UsdAmounts == {0, 2000000, 5000000}

UsdAmountLists == UNION {[1..n -> UsdAmounts] : n \in 1..MaxRows}

UsdProposal(date, amounts) ==
  Proposal(JStr("1"), CreatedAt(date), "msgs",
           <<BankSend(JStr(AddrAlice),
                      [i \in 1..Len(amounts) |-> Coin("uosmo", JNumStr(amounts[i]))])>>)

\* lines 27-76 for that input
InitUsd ==
  \E sym \in UsdSymbols, date \in UsdDates, file \in UsdFiles, amounts \in UsdAmountLists :
    \E registry \in {<< <<"uosmo", Info(sym, 6)>> >>}, proposal \in {UsdProposal(date, amounts)} :
      \E r \in {ExtractPaymentsFromProposal(proposal, "Ops", SubUnitAddress("Ops"),
                                            Jan02, FALSE)} :
        /\ pc = "value"
        /\ exception = ""
        /\ indexer = {}
        /\ debug = FALSE
        /\ now = Jan02
        /\ token_data = registry
        /\ core_team_addresses = {}
        /\ pricing_lookup = LoadPricingData(file)
        /\ cg_cache = NoCache
        /\ visited = {"Ops"}
        /\ subunit = NoSubUnit
        /\ all_payments = r.pays
        /\ diagnostics = [NewDiagnostics EXCEPT !.total_messages_scanned =
                            CountMessages(proposal)]
        /\ saved_diagnostics = NoDiagnostics
        /\ df = [i \in 1..Len(r.pays) |-> Normalize(r.pays[i], registry, {})]
        /\ usd = <<>>
        /\ ledger = <<>>
        /\ insights = NoInsights
        /\ detailed_report = NoReport
        /\ pricing_file = file
        /\ threads = NoThreads
        /\ scans = <<Scan("PUsd", "Ops", r, 1)>>
        /\ skipped = {}
        /\ requests = <<>>

NextUsd ==
  \/ \E resp \in Responses : ValueRow(resp)
  \/ Categorize

SpecUsd == InitUsd /\ [][NextUsd]_vars

(***************************************************************************)
(* The categorisation stage on its own: process_all_proposals from line 79 *)
(* on for an input of one sub-unit with one proposal of two bank sends,    *)
(* whose amounts lie on and around the boundaries of the buckets           *)
(***************************************************************************)
\* a registry whose only token has two decimals
RegistryCents == << <<"uscrt", Info(SCRT, 2)>> >>

\* raw amounts in hundredths: 0, 0.01, 99, 99.99, 100, 100.01, 999.99, 1000,
\* 9999.99, 10000, 49999.99, 50000, 99999.99, 100000, 100000.01, 1000000
BucketAmounts ==
  {0, 1, 9900, 9999, 10000, 10001, 99999, 100000, 999999, 1000000, 4999999, 5000000,
   9999999, 10000000, 10000001, 100000000}

BucketRecipients == {AddrAlice, AddrBob}

BucketProposal(r1, a1, r2, a2) ==
  Proposal(JStr("1"), CreatedAt(Jan01), "msgs",
           <<BankSend(JStr(r1), <<Coin("uscrt", JNumStr(a1))>>),
             BankSend(JStr(r2), <<Coin("uscrt", JNumStr(a2))>>)>>)

\* lines 27-76 for that input, with one core-team address
InitBuckets ==
  \E r1 \in BucketRecipients, r2 \in BucketRecipients, a1 \in BucketAmounts, a2 \in BucketAmounts :
    \E proposal \in {BucketProposal(r1, a1, r2, a2)} :
      \E r \in {ExtractPaymentsFromProposal(proposal, "Ops", SubUnitAddress("Ops"),
                                            Jan02, FALSE)} :
        /\ pc = "value"
        /\ exception = ""
        /\ indexer = {}
        /\ debug = FALSE
        /\ now = Jan02
        /\ token_data = RegistryCents
        /\ core_team_addresses = {AddrAlice}
        /\ pricing_lookup = LoadPricingData(FileMissing)
        /\ cg_cache = NoCache
        /\ visited = {"Ops"}
        /\ subunit = NoSubUnit
        /\ all_payments = r.pays
        /\ diagnostics = [NewDiagnostics EXCEPT !.total_messages_scanned =
                            CountMessages(proposal)]
        /\ saved_diagnostics = NoDiagnostics
        /\ df = [i \in 1..Len(r.pays) |-> Normalize(r.pays[i], RegistryCents, {AddrAlice})]
        /\ usd = <<>>
        /\ ledger = <<>>
        /\ insights = NoInsights
        /\ detailed_report = NoReport
        /\ pricing_file = FileMissing
        /\ threads = NoThreads
        /\ scans = <<Scan("PBuckets", "Ops", r, 1)>>
        /\ skipped = {}
        /\ requests = <<>>

SpecBuckets == InitBuckets /\ [][NextUsd]_vars

(***************************************************************************)
(* The constructor reading a pricing file                                  *)
(***************************************************************************)
\* records in the pricing file
MaxRecords == 3

osmoPadded == <<"o","s","m","o"," ">>

PriceTokens == {OSMO, osmo, osmoPadded, ATOM, <<>>}

PriceRecords ==
  {Entry(tok, date, price) : tok \in PriceTokens, date \in {Jan01, Jan02},
                             price \in {Price(1, 1), Price(2, 1)}}

PricingFiles ==
  {FileMissing} \cup
  {[found |-> TRUE, entries |-> e] : e \in UNION {[1..n -> PriceRecords] : n \in 0..MaxRecords}}

\* before DataProcessor(...) is called: a pricing file, no processor yet
InitPrices ==
  \E file \in PricingFiles :
    /\ pc = "construct"
    /\ exception = ""
    /\ indexer = {}
    /\ debug = FALSE
    /\ now = Jan02
    /\ token_data = RegistryEmpty
    /\ core_team_addresses = {}
    /\ pricing_lookup = << >>
    /\ cg_cache = NoCache
    /\ visited = {}
    /\ subunit = NoSubUnit
    /\ all_payments = <<>>
    /\ diagnostics = NoDiagnostics
    /\ saved_diagnostics = NoDiagnostics
    /\ df = <<>>
    /\ usd = <<>>
    /\ ledger = <<>>
    /\ insights = NoInsights
    /\ detailed_report = NoReport
    /\ pricing_file = file
    /\ threads = NoThreads
    /\ scans = <<>>
    /\ skipped = {}
    /\ requests = <<>>

\* DataProcessor.__init__ with its call of _load_pricing_data
Construct(core, registry) ==
  /\ pc = "construct"
  /\ pc' = "subunits"
  /\ core_team_addresses' = core
  /\ token_data' = registry
  /\ pricing_lookup' = LoadPricingData(pricing_file)
  /\ UNCHANGED <<exception, indexer, debug, now, cg_cache, visited, subunit, all_payments,
                 diagnostics, saved_diagnostics, df, usd, ledger, insights, detailed_report, pricing_file,
                 threads, scans, skipped, requests>>

NextPrices == \E registry \in {RegistryEmpty, RegistryOsmo} : Construct({AddrAlice}, registry)

SpecPrices == InitPrices /\ [][NextPrices]_vars

(***************************************************************************)
(* Valuations of one missing price running at once on one processor        *)
(***************************************************************************)
\* valuations running at once
Valuations == 2

\* cache_key of the rows being valued: OSMO on one date, no price table
RacedKey == <<CgMap(OSMO), Jan01>>

\* an entry of the cache for another token
OtherKey == <<CgMap(SCRT), Jan01>>

StartedValuation(amount) ==
  [pc |-> "hasattr", adjusted_amount |-> amount, price |-> NoneNum, usd |-> NoneNum,
   wrote |-> FALSE, answer |-> ""]

\* one processor without a price table, its cache not yet created or holding
\* another token's price, and the valuations before line 870
InitThreads ==
  \E amount \in {Rat(2, 1), Rat(5, 1)},
     cache \in {NoCache, CachePut(CacheInit(NoCache), OtherKey, Price(7, 1))} :
    /\ pc = "threads"
    /\ exception = ""
    /\ indexer = {}
    /\ debug = FALSE
    /\ now = Jan02
    /\ token_data = RegistryOsmo
    /\ core_team_addresses = {}
    /\ pricing_lookup = LoadPricingData(FileMissing)
    /\ cg_cache = cache
    /\ visited = {}
    /\ subunit = NoSubUnit
    /\ all_payments = <<>>
    /\ diagnostics = NoDiagnostics
    /\ saved_diagnostics = NoDiagnostics
    /\ df = <<>>
    /\ usd = <<>>
    /\ ledger = <<>>
    /\ insights = NoInsights
    /\ detailed_report = NoReport
    /\ pricing_file = FileMissing
    /\ threads = [t \in 1..Valuations |-> StartedValuation(amount)]
    /\ scans = <<>>
    /\ skipped = {}
    /\ requests = <<>>

\* what a step of a valuation leaves alone besides the cache
ValuationFrame ==
  UNCHANGED <<pc, exception, processor, visited, subunit, all_payments, diagnostics,
              saved_diagnostics, df, usd, ledger, insights, detailed_report, pricing_file,
              scans, skipped>>

\* return adjusted_amount * price if price is not None else 0.0
Returning(thread, price) ==
  [thread EXCEPT !.pc = "returned",
                 !.usd = IF IsNum(price) THEN RatMul(thread.adjusted_amount, price) ELSE Zero]

\* line 870: if not hasattr(self, '_cg_cache')
TestHasattr(t) ==
  /\ threads[t].pc = "hasattr"
  /\ threads' = [threads EXCEPT ![t].pc = IF cg_cache.exists THEN "lookup" ELSE "create"]
  /\ UNCHANGED <<cg_cache, requests>>
  /\ ValuationFrame

\* line 871: self._cg_cache = {}
CreateCache(t) ==
  /\ threads[t].pc = "create"
  /\ cg_cache' = CacheInit(NoCache)
  /\ threads' = [threads EXCEPT ![t].pc = "lookup"]
  /\ UNCHANGED requests
  /\ ValuationFrame

\* line 874: if cache_key in self._cg_cache
TestCached(t) ==
  /\ threads[t].pc = "lookup"
  /\ threads' = [threads EXCEPT ![t].pc = IF RacedKey \in DOMAIN cg_cache.map
                                          THEN "read" ELSE "request"]
  /\ UNCHANGED <<cg_cache, requests>>
  /\ ValuationFrame

\* lines 875-876: price = self._cg_cache[cache_key]; a KeyError is caught at
\* line 895 and the valuation returns 0.0
ReadCached(t) ==
  /\ threads[t].pc = "read"
  /\ threads' = [threads EXCEPT ![t] =
                   IF RacedKey \in DOMAIN cg_cache.map
                   THEN Returning(threads[t], cg_cache.map[RacedKey])
                   ELSE Returning(threads[t], NoneNum)]
  /\ UNCHANGED <<cg_cache, requests>>
  /\ ValuationFrame

\* lines 879-888: the request and its answer
Request(t, resp) ==
  /\ threads[t].pc = "request"
  /\ threads' = [threads EXCEPT ![t] =
                   IF resp.kind \in {"ok", "noprice"}
                   THEN [threads[t] EXCEPT !.pc = "store", !.price = resp.price,
                                           !.answer = resp.kind]
                   ELSE [Returning(threads[t], NoneNum) EXCEPT !.answer = resp.kind]]
  /\ requests' = Append(requests, [key |-> RacedKey, kind |-> resp.kind])
  /\ UNCHANGED cg_cache
  /\ ValuationFrame

\* lines 890-891: self._cg_cache[cache_key] = price, and the return
StoreCached(t) ==
  /\ threads[t].pc = "store"
  /\ cg_cache' = CachePut(cg_cache, RacedKey, threads[t].price)
  /\ threads' = [threads EXCEPT ![t] =
                   [Returning(threads[t], threads[t].price) EXCEPT !.wrote = TRUE]]
  /\ UNCHANGED requests
  /\ ValuationFrame

NextThreads ==
  \E t \in 1..Valuations :
    \/ TestHasattr(t)
    \/ CreateCache(t)
    \/ TestCached(t)
    \/ ReadCached(t)
    \/ \E resp \in Responses : Request(t, resp)
    \/ StoreCached(t)

SpecThreads == InitThreads /\ [][NextThreads]_vars

(***************************************************************************)
(* Properties                                                              *)
(***************************************************************************)
\* C1: every payment extracted, by whichever path, has a Recipient other
\* than the sub-unit address it was extracted for
C1_RecipientIsNotSubUnit ==
  \A i \in 1..Len(all_payments) :
    all_payments[i].Recipient # all_payments[i].SubUnitAddress

\* the rows of the ledger that came from the k-th proposal scanned
RowsOf(k) == SubSeq(ledger, scans[k].first, scans[k].first + scans[k].count - 1)

\* the recipient named by the transfer payload of a catalogue proposal
TransferRecipient(name) == IF name = "PTransferFunds" THEN AddrAlice ELSE AddrCosmos

\* C2: a wasm execute whose msg is a transfer of 100 to A and whose funds
\* hold 50 of one denom gives exactly two ledger transactions, one to A for
\* 100 and one to the contract for 50
C2_TransferAndFundsGiveTwoRows ==
  pc = "done" =>
    \A k \in 1..Len(scans) :
      scans[k].name \in {"PTransferFunds", "PTransferForeign"} =>
        LET rows == RowsOf(k)
        IN  /\ Len(rows) = 2
            /\ \E a, b \in 1..2 :
                 /\ a # b
                 /\ rows[a].Recipient = TransferRecipient(scans[k].name)
                 /\ rows[a].AmountRaw = 100
                 /\ rows[b].Recipient = AddrVest
                 /\ rows[b].AmountRaw = 50
                 /\ rows[b].Denom = "uscrt"

\* the 'send' object and the coin of a proposal whose only message is a
\* bank send of one coin
SendOf(proposal) == At(At(At(proposal, "msgs").elems[1], "bank"), "send")

CoinOf(proposal) == At(SendOf(proposal), "amount").elems[1]

IsSingleBankSend(proposal) ==
  /\ IsDict(proposal) /\ Has(proposal, "msgs") /\ IsList(At(proposal, "msgs"))
  /\ Len(At(proposal, "msgs").elems) = 1
  /\ IsDict(At(proposal, "msgs").elems[1])
  /\ Has(At(proposal, "msgs").elems[1], "bank")
  /\ IsDict(At(At(proposal, "msgs").elems[1], "bank"))
  /\ Has(At(At(proposal, "msgs").elems[1], "bank"), "send")
  /\ IsDict(SendOf(proposal))
  /\ Has(SendOf(proposal), "to_address") /\ At(SendOf(proposal), "to_address").t = "str"
  /\ Has(SendOf(proposal), "amount") /\ IsList(At(SendOf(proposal), "amount"))
  /\ Len(At(SendOf(proposal), "amount").elems) = 1
  /\ IsDict(CoinOf(proposal))
  /\ Has(CoinOf(proposal), "denom") /\ At(CoinOf(proposal), "denom").t = "str"
  /\ Has(CoinOf(proposal), "amount") /\ At(CoinOf(proposal), "amount").t = "numstr"

\* a finished run over one sub-unit with one proposal holding one bank send
\* to a recipient other than the sub-unit, the registry mapping the denom and
\* the table holding a price for the registry's symbol on the proposal's date
EndToEndCase ==
  /\ pc = "done"
  /\ Len(scans) = 1
  /\ scans[1].name \in ProposalNames
  /\ LET proposal == ProposalNamed(scans[1].name)
     IN  /\ IsSingleBankSend(proposal)
         /\ At(SendOf(proposal), "to_address").s # SubUnitAddress(scans[1].subunit)
         /\ HasToken(token_data, At(CoinOf(proposal), "denom").s)
         /\ LET info == TokenInfo(token_data, At(CoinOf(proposal), "denom").s)
                date == ExtractProposalDate(proposal, now)
            IN  /\ IsStr(info.symbol)
                /\ StrUpper(info.symbol) \in DOMAIN pricing_lookup
                /\ date \in DOMAIN pricing_lookup[StrUpper(info.symbol)]
                /\ IsNum(pricing_lookup[StrUpper(info.symbol)][date])

\* one transaction with adjusted amount R/10^k, display symbol S and USD
\* value (R/10^k)*p
EndToEndResult ==
  LET proposal == ProposalNamed(scans[1].name)
      info     == TokenInfo(token_data, At(CoinOf(proposal), "denom").s)
      p        == pricing_lookup[StrUpper(info.symbol)][ExtractProposalDate(proposal, now)]
      adjusted == Rat(At(CoinOf(proposal), "amount").i, Pow10(info.decimals))
  IN  /\ Len(ledger) = 1
      /\ ledger[1].AdjustedAmount = adjusted
      /\ ledger[1].DisplaySymbol = info.symbol
      /\ ledger[1].USDValue = RatMul(adjusted, p)

\* the registry's symbol for the coin of the only proposal scanned
EndToEndSymbol ==
  TokenInfo(token_data, At(CoinOf(ProposalNamed(scans[1].name)), "denom").s).symbol

TablePrices(row) ==
  LET candidates == Candidates(row.DisplaySymbol)
  IN  pricing_lookup[LookupKeyUp(candidates[FirstPresent(candidates, pricing_lookup)])]

\* a valued row whose symbol is in the Price Table
InTable(i) ==
  /\ IsStr(df[i].DisplaySymbol)
  /\ df[i].DisplaySymbol # <<>>
  /\ df[i].ProposalDate # EmptyDate
  /\ FirstPresent(Candidates(df[i].DisplaySymbol), pricing_lookup) # 0

\* the dates of a table at the smallest distance from the target
NearestDates(token_prices, target) ==
  {x \in DOMAIN token_prices :
     \A y \in DOMAIN token_prices : DayDiff(x, target) <= DayDiff(y, target)}

\* the earliest of a set of dates
Earliest(S) == CHOOSE x \in S : \A y \in S : ~DateLess(y, x)

\* C4: for a symbol in the Price Table the value is the adjusted amount times
\* the price of the exact proposal date when the table has it, otherwise times
\* the price of the date nearest in days, the earlier one of two equally near
C4_ExactThenNearestEarlier ==
  \A i \in 1..Len(usd) :
    InTable(i) =>
      LET token_prices == TablePrices(df[i])
          date == df[i].ProposalDate
      IN  /\ (date \in DOMAIN token_prices /\ IsNum(token_prices[date]))
               => usd[i].value = RatMul(df[i].AdjustedAmount, token_prices[date])
          /\ (/\ date \notin DOMAIN token_prices
              /\ Parses(date)
              /\ \A x \in DOMAIN token_prices : Parses(x) /\ IsNum(token_prices[x]))
               => usd[i].value =
                    RatMul(df[i].AdjustedAmount,
                           token_prices[Earliest(NearestDates(token_prices, date))])

\* 2024-01-02 between 2024-01-01 and 2024-01-03: the price of 2024-01-01
C4_Witness ==
  \E i \in 1..Len(usd) :
    /\ InTable(i)
    /\ df[i].ProposalDate = Jan02
    /\ df[i].AdjustedAmount # Zero
    /\ DOMAIN TablePrices(df[i]) = {Jan01, Jan03, Jan31}
    /\ TablePrices(df[i])[Jan01] # TablePrices(df[i])[Jan03]
    /\ usd[i].value = RatMul(df[i].AdjustedAmount, TablePrices(df[i])[Jan01])

\* C5: a row for which no price was resolved gets a result other than the
\* number 0 that a zero-value transfer has
C5_UnresolvedIsNotZero ==
  \A i \in 1..Len(usd) : ~usd[i].resolved => usd[i].value # Zero

\* C6 as stated: no (service id, date) pair is requested twice, whatever the
\* outcome of the first request
C6_NoPairRequestedTwice ==
  \A i, j \in 1..Len(requests) : i # j => requests[i].key # requests[j].key

\* C6: a pair whose request got a 200 response with a parsable body (a price
\* or an explicit no-price) is never requested again
C6_CachedPairNotRequestedAgain ==
  \A i, j \in 1..Len(requests) :
    (i < j /\ requests[i].key = requests[j].key)
      => requests[i].kind \notin {"ok", "noprice"}

\* the second valuation of a pair is answered from the cache
C6_Witness ==
  /\ Len(usd) = 2
  /\ Len(requests) = 1
  /\ requests[1].kind = "noprice"
  /\ usd[1].call # NoCall
  /\ usd[2].call = NoCall
  /\ df[1].AdjustedAmount # Zero
  /\ df[2].AdjustedAmount # Zero

\* C7: process_all_proposals never raises
C7_BatchNeverCrashes == pc # "crashed"

\* C8: a proposal whose scan raises after its first message contributes no
\* payment, and the failure is recorded in the diagnostics
C8_FailedProposalContributesNothing ==
  \A k \in 1..Len(scans) :
    scans[k].raised_at > 1 =>
      /\ scans[k].count = 0
      /\ diagnostics.subunits # <<>>

\* C9: no exception leaves _calculate_usd_value: a row whose resolution raises
\* gets the value 0 and the rows after it are valued
C9_ResolverNeverRaises ==
  /\ exception # "_calculate_usd_value"
  /\ \A i \in 1..Len(usd) : usd[i].caught => usd[i].value = Zero
  /\ pc = "done" => Len(usd) = Len(df)

\* a row whose resolution raised, and the row after it valued
C9_Witness ==
  /\ Len(usd) = 2
  /\ usd[1].caught
  /\ df[1].AdjustedAmount # Zero

\* C10 as stated: two valuations of identical rows give identical results,
\* whatever the outcome of the first
C10_IdenticalRowsIdenticalValues ==
  \A i, j \in 1..Len(usd) : df[i] = df[j] => usd[i].value = usd[j].value

\* C10: two valuations of identical rows give identical results unless the
\* first sent a request that failed (non-200, network or parse failure)
C10_IdenticalUnlessRequestFailed ==
  \A i, j \in 1..Len(usd) :
    (/\ i < j
     /\ df[i] = df[j]
     /\ (usd[i].call = NoCall \/ usd[i].call[1].kind \in {"ok", "noprice"}))
      => usd[i].value = usd[j].value

\* a fetched price returned again for the identical row
C10_Witness ==
  /\ Len(usd) = 2
  /\ df[1] = df[2]
  /\ usd[1].call # NoCall
  /\ usd[1].call[1].kind = "ok"
  /\ usd[1].value # Zero
  /\ usd[2].value = usd[1].value

\* C11: when process_all_proposals has returned, every sub-unit whose entry
\* carried an 'error' key has an entry of its own in the diagnostics the run
\* saved
C11_ErroredSubUnitInDiagnostics ==
  pc = "done" =>
    \A name \in skipped :
      \E i \in 1..Len(saved_diagnostics.subunits) :
        saved_diagnostics.subunits[i].name = name

\* the list a dict holds under the first of the keys msgs, messages, actions
\* that holds a non-empty list
ListUnderAnyKey(obj) ==
  IF ~IsDict(obj) THEN <<>>
  ELSE IF IsList(Get(obj, "msgs")) /\ Truthy(Get(obj, "msgs")) THEN At(obj, "msgs").elems
  ELSE IF IsList(Get(obj, "messages")) /\ Truthy(Get(obj, "messages"))
  THEN At(obj, "messages").elems
  ELSE IF IsList(Get(obj, "actions")) THEN At(obj, "actions").elems
  ELSE <<>>

\* the message list of a proposal of the input: that of the object nested
\* under 'proposal' when there is one, else that of the proposal itself
MessageListOfInput(proposal) ==
  IF IsDict(proposal) /\ ListUnderAnyKey(Get(proposal, "proposal")) # <<>>
  THEN ListUnderAnyKey(At(proposal, "proposal"))
  ELSE ListUnderAnyKey(proposal)

\* the messages of the first k proposals scanned
RECURSIVE MessagesOfScans(_)
MessagesOfScans(k) ==
  IF k = 0 THEN 0
  ELSE Len(MessageListOfInput(ProposalNamed(scans[k].name))) + MessagesOfScans(k - 1)

\* C12: when process_all_proposals has returned, the saved diagnostics count
\* as payments extracted the rows of the returned ledger, and as messages
\* scanned the messages in the message lists of all proposals of the
\* sub-units without an error
C12_CountersMatchLedgerAndMessages ==
  pc = "done" =>
    /\ saved_diagnostics.total_payments_extracted = Len(ledger)
    /\ saved_diagnostics.total_messages_scanned = MessagesOfScans(Len(scans))

\* the first half of C12 alone
C12_PaymentsCounterMatchesLedger ==
  pc = "done" => saved_diagnostics.total_payments_extracted = Len(ledger)

\* the second half of C12 for the proposals whose list of messages is under
\* 'msgs' or 'messages'
C12_MessagesCounterMatchesScannedLists ==
  pc = "done" /\ (\A k \in 1..Len(scans) : scans[k].name # "PActions") =>
    saved_diagnostics.total_messages_scanned = MessagesOfScans(Len(scans))

\* the message types of the rows made from a coin of a bank send, the amount
\* of a transfer or the total of a payroll contract
DirectTypes ==
  {"bank_send", "wasm_transfer", "wasm_send", "wasm_instantiate_native_payroll_contract"}

\* the amounts a decoded execute msg names, in the order the handler reads them
AmountsOfExecute(decoded_msg) ==
  (IF IsDict(Get(decoded_msg, "instantiate_native_payroll_contract"))
   THEN <<Get(GetOr(At(decoded_msg, "instantiate_native_payroll_contract"),
                    "instantiate_msg", EmptyDict), "total")>>
   ELSE <<>>)
  \o (IF IsDict(Get(decoded_msg, "transfer"))
      THEN <<Get(At(decoded_msg, "transfer"), "amount")>> ELSE <<>>)
  \o (IF IsDict(Get(decoded_msg, "send"))
      THEN <<Get(At(decoded_msg, "send"), "amount")>> ELSE <<>>)

\* the amounts one source message names: those of the coins of a bank send,
\* or those of the decoded msg of a wasm execute
AmountsOfMessage(msg) ==
  IF ~IsDict(msg) THEN <<>>
  ELSE IF IsDict(Get(msg, "bank")) /\ IsDict(Get(At(msg, "bank"), "send"))
  THEN [i \in 1..Len(GetOr(At(At(msg, "bank"), "send"), "amount", JList(<<>>)).elems) |->
          GetOr(At(At(At(msg, "bank"), "send"), "amount").elems[i], "amount", JNumStr(0))]
  ELSE IF IsDict(Get(msg, "wasm")) /\ IsDict(Get(At(msg, "wasm"), "execute"))
  THEN AmountsOfExecute(DecodeWasmMessage(
         GetOr(At(At(msg, "wasm"), "execute"), "msg", EmptyDict)))
  ELSE <<>>

\* the values of the amounts of msgs[i..] that are non-negative integers
RECURSIVE ParsableAmounts(_, _)
ParsableAmounts(msgs, i) ==
  IF i > Len(msgs) THEN <<>>
  ELSE [j \in 1..Len(SelectSeq(AmountsOfMessage(msgs[i]), IsDigit)) |->
          IntOf(SelectSeq(AmountsOfMessage(msgs[i]), IsDigit)[j])]
       \o ParsableAmounts(msgs, i + 1)

\* the payments extracted by scan k
PaymentsOf(k) == SubSeq(all_payments, scans[k].first, scans[k].first + scans[k].count - 1)

\* the raw amounts of the payments of scan k that have a direct type
DirectAmountsOfScan(k) ==
  [j \in 1..Len(SelectSeq(PaymentsOf(k), LAMBDA row : row.MessageType \in DirectTypes)) |->
     SelectSeq(PaymentsOf(k), LAMBDA row : row.MessageType \in DirectTypes)[j].AmountRaw]

\* C13: every payment has a non-negative raw amount, and the coins, transfers
\* and payroll totals of a scanned proposal give exactly one payment for each
\* amount that is a non-negative integer, with that amount: an unparsable
\* amount gives no payment and takes none of the others away
C13_OnlyParsableAmountsGivePayments ==
  /\ \A i \in 1..Len(all_payments) : all_payments[i].AmountRaw >= 0
  /\ \A k \in 1..Len(scans) :
       IsDict(ProposalNamed(scans[k].name)) =>
         DirectAmountsOfScan(k) =
           ParsableAmounts(MessageList(ProposalNamed(scans[k].name),
                                       ProposalObj(ProposalNamed(scans[k].name))), 1)

\* C13 for the proposals other than the one with unparsable amounts
C13_ParsableAmountsGivePayments ==
  \A k \in 1..Len(scans) :
    IsDict(ProposalNamed(scans[k].name)) /\ scans[k].name # "PUnparsable" =>
      DirectAmountsOfScan(k) =
        ParsableAmounts(MessageList(ProposalNamed(scans[k].name),
                                    ProposalObj(ProposalNamed(scans[k].name))), 1)

\* msg is a wasm execute whose payload is a string that fails base64 or JSON
\* decoding
FailsDecoding(msg) ==
  /\ IsDict(msg)
  /\ IsDict(Get(msg, "wasm"))
  /\ IsDict(Get(At(msg, "wasm"), "execute"))
  /\ GetOr(At(At(msg, "wasm"), "execute"), "msg", EmptyDict).t = "b64"
  /\ ~GetOr(At(At(msg, "wasm"), "execute"), "msg", EmptyDict).ok

\* every wasm message of the list fails decoding, and there is one
OnlyUndecodableWasm(msgs) ==
  /\ \E i \in 1..Len(msgs) : FailsDecoding(msgs[i])
  /\ \A i \in 1..Len(msgs) :
       IsDict(msgs[i]) /\ Has(msgs[i], "wasm") => FailsDecoding(msgs[i])

\* the message types of the payments that come from bank, stargate and
\* free-form messages
NonWasmTypes == {"bank_send", "stargate", "other"}

\* C14: a scanned proposal whose wasm messages all fail decoding has no
\* payment from a wasm message, funds or not, and has the payments of its
\* other messages
C14_UndecodablePayloadGivesNoPayment ==
  \A k \in 1..Len(scans) :
    /\ IsDict(ProposalNamed(scans[k].name))
    /\ OnlyUndecodableWasm(MessageList(ProposalNamed(scans[k].name),
                                       ProposalObj(ProposalNamed(scans[k].name))))
    => /\ \A j \in 1..Len(PaymentsOf(k)) : PaymentsOf(k)[j].MessageType \in NonWasmTypes
       /\ DirectAmountsOfScan(k) =
            ParsableAmounts(MessageList(ProposalNamed(scans[k].name),
                                        ProposalObj(ProposalNamed(scans[k].name))), 1)

\* the second half of C14 alone: the messages after the undecodable one still
\* give their payments
C14_ExtractionContinues ==
  \A k \in 1..Len(scans) :
    /\ IsDict(ProposalNamed(scans[k].name))
    /\ OnlyUndecodableWasm(MessageList(ProposalNamed(scans[k].name),
                                       ProposalObj(ProposalNamed(scans[k].name))))
    => /\ scans[k].raised_at = 0
       /\ DirectAmountsOfScan(k) =
            ParsableAmounts(MessageList(ProposalNamed(scans[k].name),
                                        ProposalObj(ProposalNamed(scans[k].name))), 1)

\* the payments extract_payments_from_proposal gives for the proposal of scan j
ExtractedAlone(j) ==
  ExtractPaymentsFromProposal(ProposalNamed(scans[j].name), scans[j].subunit,
                              SubUnitAddress(scans[j].subunit), now, debug).pays

\* C15: the scan of a proposal whose wasm execute msg is a string that is no
\* base64 raises nothing, in the extractor or in the handler; every proposal
\* scanned after it gets the payments it gives on its own, and when the run
\* returns those payments are rows of the ledger
C15_BadBase64DoesNotStopTheBatch ==
  \A k \in 1..Len(scans) :
    scans[k].name = "PBadBase64" =>
      /\ ~scans[k].raised
      /\ scans[k].raised_at = 0
      /\ \A j \in (k + 1)..Len(scans) : PaymentsOf(j) = ExtractedAlone(j)
      /\ pc = "done" =>
           /\ Len(ledger) = Len(all_payments)
           /\ \A j \in (k + 1)..Len(scans) :
                \A i \in 1..Len(RowsOf(j)) :
                  /\ RowsOf(j)[i].ProposalID = PaymentsOf(j)[i].ProposalID
                  /\ RowsOf(j)[i].Recipient = PaymentsOf(j)[i].Recipient
                  /\ RowsOf(j)[i].AmountRaw = PaymentsOf(j)[i].AmountRaw
                  /\ RowsOf(j)[i].Denom = PaymentsOf(j)[i].Denom

\* a run that returned after scanning the proposal with the bad payload and
\* then a proposal that has payments
C15_Witness ==
  /\ pc = "done"
  /\ \E k \in 1..Len(scans) :
       /\ scans[k].name = "PBadBase64"
       /\ \E j \in (k + 1)..Len(scans) : scans[j].count > 0 /\ Len(RowsOf(j)) = scans[j].count

\* the registry's decimals for a denom, 0 for a denom the registry lacks
RegistryDecimals(denom) ==
  IF \E i \in 1..Len(token_data) : token_data[i][1] = denom
  THEN token_data[CHOOSE i \in 1..Len(token_data) : token_data[i][1] = denom][2].decimals
  ELSE 0

\* C16: for every row of the table, the adjusted amount times 10^decimals is
\* the raw amount, decimals being the registry's value for the row's denom
\* and 0 for a denom the registry lacks
C16_AdjustedIsRawOverPowerOfTen ==
  \A i \in 1..Len(df) :
    RatMul(df[i].AdjustedAmount, Rat(Pow10(RegistryDecimals(df[i].Denom)), 1))
      = Rat(df[i].AmountRaw, 1)

\* a table with a row of a denom of four decimals, a row of a denom of six and
\* a row of a denom the registry lacks, none of amount 0
C16_Witness ==
  /\ \E i \in 1..Len(df) : RegistryDecimals(df[i].Denom) = 4 /\ df[i].AmountRaw # 0
  /\ \E i \in 1..Len(df) : RegistryDecimals(df[i].Denom) = 6 /\ df[i].AmountRaw # 0
  /\ \E i \in 1..Len(df) :
       /\ \A j \in 1..Len(token_data) : token_data[j][1] # df[i].Denom
       /\ df[i].AmountRaw # 0
       /\ df[i].AdjustedAmount = Rat(df[i].AmountRaw, 1)

\* C17: the core-team percentage of the report is 100 * U_c / U_t, U_c being
\* the sum of USD Value over the ledger rows of payment type Core Team and
\* U_t > 0 the sum over all rows
C17_CoreTeamPercentageIsUsdShare ==
  insights.made /\ ColumnSum(ledger, "USD Value", 1).n > 0 =>
    insights.core_team_percentage =
      RatMul(RatDiv(ColumnSum(CoreTeamRows(ledger), "USD Value", 1),
                    ColumnSum(ledger, "USD Value", 1)),
             Rat(100, 1))

\* the boundaries of the amount categories, and those of the size tiers of
\* the transaction categories
AmountBoundaries == {100, 1000, 10000, 50000, 100000}

TierBoundaries == {100, 1000, 10000}

\* the number of boundaries of a set that an amount has reached
Reached(amount, boundaries) == Cardinality({b \in boundaries : amount.n >= b * amount.d})

\* the rank of an amount category along Micro, Minor, Small, Medium, Large,
\* Very Large, counted from 0
AmountRank(cat) == Len(category_order) - 1 - sort_mapping(cat)

\* the rank of the size tier of a transaction category along Micro, Small,
\* Medium, Large, counted from 0
TierRank(cat) ==
  CASE cat = "Micro Payment" -> 0
    [] cat \in {"Small Core Team Payment", "Small External Payment"} -> 1
    [] cat \in {"Medium Core Team Payment", "Medium External Payment"} -> 2
    [] cat \in {"Large Core Team Payment", "Large External Payment"} -> 3

StandardWalletLength == 63

\* C19: every ledger row has one of the four recipient types, by the shape of
\* its recipient: Unknown for an empty or non-string value, Other Address for
\* a string without the prefix osmo1, Smart Contract for an address longer
\* than the standard wallet length, Wallet Address for one of exactly that
\* length
C19_RecipientTypeByShape ==
  \A i \in 1..Len(ledger) :
    /\ ledger[i].RecipientType \in {"Smart Contract", "Wallet Address", "Other Address", "Unknown"}
    /\ ledger[i].Recipient = "" \/ ~IsStrRecipient(ledger[i].Recipient)
         => ledger[i].RecipientType = "Unknown"
    /\ ledger[i].Recipient # "" /\ IsStrRecipient(ledger[i].Recipient)
         /\ ~StartsWithOsmo1(ledger[i].Recipient)
         => ledger[i].RecipientType = "Other Address"
    /\ StartsWithOsmo1(ledger[i].Recipient) /\ AddrLen(ledger[i].Recipient) > StandardWalletLength
         => ledger[i].RecipientType = "Smart Contract"
    /\ StartsWithOsmo1(ledger[i].Recipient) /\ AddrLen(ledger[i].Recipient) = StandardWalletLength
         => ledger[i].RecipientType = "Wallet Address"

\* C19 without the address of exactly the standard length
C19_RecipientTypeOffTheStandardLength ==
  \A i \in 1..Len(ledger) :
    /\ ledger[i].RecipientType \in {"Smart Contract", "Wallet Address", "Other Address", "Unknown"}
    /\ ledger[i].Recipient # "" /\ ~StartsWithOsmo1(ledger[i].Recipient)
         => ledger[i].RecipientType = "Other Address"
    /\ StartsWithOsmo1(ledger[i].Recipient) /\ AddrLen(ledger[i].Recipient) <= 50
         => ledger[i].RecipientType = "Wallet Address"
    /\ StartsWithOsmo1(ledger[i].Recipient) /\ AddrLen(ledger[i].Recipient) > 50
         => ledger[i].RecipientType = "Smart Contract"

\* the keys under which the input may hold a proposal's message list
MessageKeys == {"msgs", "messages", "actions"}

\* the items of a dict with the message list moved under key
Rekey(items, key) ==
  [i \in 1..Len(items) |->
     IF items[i][1] \in MessageKeys THEN <<key, items[i][2]>> ELSE items[i]]

\* a proposal with its message list under key, at the top level or in the
\* object nested under 'proposal'
WithMessagesUnder(proposal, key) ==
  JDict([i \in 1..Len(Rekey(proposal.items, key)) |->
           IF Rekey(proposal.items, key)[i][1] = "proposal"
              /\ IsDict(Rekey(proposal.items, key)[i][2])
           THEN <<"proposal", JDict(Rekey(Rekey(proposal.items, key)[i][2].items, key))>>
           ELSE Rekey(proposal.items, key)[i]])

\* the payments the extractor gives for the proposal of scan k when its
\* message list is held under key
ExtractedUnder(k, key) ==
  ExtractPaymentsFromProposal(WithMessagesUnder(ProposalNamed(scans[k].name), key),
                              scans[k].subunit, SubUnitAddress(scans[k].subunit),
                              now, debug).pays

\* C20: the payments of a scanned proposal are those the extractor gives for
\* the same message list under any of the keys msgs, messages and actions
C20_SamePaymentsUnderAnyKey ==
  \A k \in 1..Len(scans) :
    IsDict(ProposalNamed(scans[k].name)) =>
      /\ ExtractedUnder(k, "msgs") = ExtractedUnder(k, "messages")
      /\ ExtractedUnder(k, "msgs") = ExtractedUnder(k, "actions")
      /\ PaymentsOf(k) \in {ExtractedUnder(k, key) : key \in MessageKeys}

\* C20 for the two keys msgs and messages
C20_SamePaymentsUnderMsgsOrMessages ==
  \A k \in 1..Len(scans) :
    IsDict(ProposalNamed(scans[k].name)) =>
      /\ ExtractedUnder(k, "msgs") = ExtractedUnder(k, "messages")
      /\ PaymentsOf(k) \in {ExtractedUnder(k, "msgs"), ExtractedUnder(k, "actions")}

\* the days on which the same input may be run again
Clocks == {Jan01, Jan02, Jan03}

\* the payments a run on day time extracts for the proposals scanned so far,
\* in the order of the scans, from scan k on
RECURSIVE PaymentsOfRunAt(_, _)
PaymentsOfRunAt(time, k) ==
  IF k > Len(scans) THEN <<>>
  ELSE ExtractPaymentsFromProposal(ProposalNamed(scans[k].name), scans[k].subunit,
                                   SubUnitAddress(scans[k].subunit), time, debug).pays
       \o PaymentsOfRunAt(time, k + 1)

\* C21: the table a run returns is the table every other run of the same
\* input returns, whatever the day of that run: the same number of rows, in
\* the order of the sub-units, proposals and messages, each with the same
\* provenance, recipient, amount and denom
C21_SameTableOnEveryRun ==
  pc = "done" =>
    \A time \in Clocks :
      /\ Len(ledger) = Len(PaymentsOfRunAt(time, 1))
      /\ \A i \in 1..Len(ledger) :
           /\ ledger[i].ProposalID = PaymentsOfRunAt(time, 1)[i].ProposalID
           /\ ledger[i].ProposalDate = PaymentsOfRunAt(time, 1)[i].ProposalDate
           /\ ledger[i].SubUnit = PaymentsOfRunAt(time, 1)[i].SubUnit
           /\ ledger[i].Recipient = PaymentsOfRunAt(time, 1)[i].Recipient
           /\ ledger[i].AmountRaw = PaymentsOfRunAt(time, 1)[i].AmountRaw
           /\ ledger[i].Denom = PaymentsOfRunAt(time, 1)[i].Denom

\* C21 without the proposal date: the rows and their order do not depend on
\* the day of the run
C21_SameRowsInInputOrder ==
  pc = "done" =>
    \A time \in Clocks :
      /\ Len(ledger) = Len(PaymentsOfRunAt(time, 1))
      /\ \A i \in 1..Len(ledger) :
           /\ ledger[i].ProposalID = PaymentsOfRunAt(time, 1)[i].ProposalID
           /\ ledger[i].SubUnit = PaymentsOfRunAt(time, 1)[i].SubUnit
           /\ ledger[i].Recipient = PaymentsOfRunAt(time, 1)[i].Recipient
           /\ ledger[i].AmountRaw = PaymentsOfRunAt(time, 1)[i].AmountRaw
           /\ ledger[i].Denom = PaymentsOfRunAt(time, 1)[i].Denom

\* C22: the payments a scanned proposal gets from its wasm execute message
\* hold no two rows with the same recipient and the same raw amount
C22_OneRowPerRecipientAndAmount ==
  \A k \in 1..Len(scans) :
    \A i \in 1..Len(PaymentsOf(k)) :
      \A j \in (i + 1)..Len(PaymentsOf(k)) :
        /\ PaymentsOf(k)[i].MessageType \notin NonWasmTypes
        /\ PaymentsOf(k)[j].MessageType \notin NonWasmTypes
        => \/ PaymentsOf(k)[i].Recipient # PaymentsOf(k)[j].Recipient
           \/ PaymentsOf(k)[i].AmountRaw # PaymentsOf(k)[j].AmountRaw

\* a candidate key of the symbol, passed through the alias table, is a key of
\* the Price Table
CandidatePresent(token_symbol) ==
  /\ IsStr(token_symbol)
  /\ \E c \in 1..Len(Candidates(token_symbol)) :
       /\ Candidates(token_symbol)[c] # <<>>
       /\ LookupKeyUp(Candidates(token_symbol)[c]) \in DOMAIN pricing_lookup

\* C23: the valuation of a row whose symbol has a candidate key in the Price
\* Table sends no request to the price service
C23_NoRequestWhenCandidatePresent ==
  \A i \in 1..Len(usd) :
    CandidatePresent(df[i].DisplaySymbol) => usd[i].call = <<>>

\* a row valued from the table without a request, its symbol being a key of
\* the table only after lowercasing, aliasing or uppercasing
C23_Witness ==
  \E i \in 1..Len(usd) :
    /\ IsStr(df[i].DisplaySymbol)
    /\ df[i].DisplaySymbol \notin DOMAIN pricing_lookup
    /\ CandidatePresent(df[i].DisplaySymbol)
    /\ usd[i].resolved
    /\ usd[i].call = <<>>

\* the decoder the priority stargate, bank, wasm gives a message, the generic
\* one for a message with none of the three keys
DecoderOf(msg) ==
  IF Has(Inner(msg), "stargate") THEN "stargate"
  ELSE IF Has(Inner(msg), "bank") THEN "bank"
  ELSE IF Has(Inner(msg), "wasm") THEN "wasm"
  ELSE "other"

\* the payments of that one decoder for the message
OneDecoder(msg, ctx) ==
  CASE DecoderOf(msg) = "stargate" -> ProcessStargateMessage(At(Inner(msg), "stargate"), ctx).pays
    [] DecoderOf(msg) = "bank"     -> ProcessBankMessage(At(Inner(msg), "bank"), ctx).pays
    [] DecoderOf(msg) = "wasm"     -> ProcessWasmMessage(At(Inner(msg), "wasm"), ctx).pays
    [] OTHER                       -> ProcessOtherMessage(Inner(msg), ctx).pays

\* the payments of the one decoder of each message of msgs[i..]
RECURSIVE OneDecoderEach(_, _, _)
OneDecoderEach(msgs, i, ctx) ==
  IF i > Len(msgs) THEN <<>>
  ELSE (IF IsDict(msgs[i]) THEN OneDecoder(msgs[i], ctx) ELSE <<>>)
       \o OneDecoderEach(msgs, i + 1, ctx)

\* the decoder a message type belongs to
DecoderOfType(message_type) ==
  CASE message_type = "stargate"  -> "stargate"
    [] message_type = "bank_send" -> "bank"
    [] message_type = "other"     -> "other"
    [] OTHER                      -> "wasm"

\* C24: the payments of a scanned proposal are, message by message, those of
\* the one decoder the priority stargate, bank, wasm gives the message, and
\* those of the generic decoder for a message with none of the three keys;
\* no row comes from a decoder that the priority gives no message of the
\* proposal
C24_OneDecoderPerMessage ==
  \A k \in 1..Len(scans) :
    IsDict(ProposalNamed(scans[k].name)) =>
      /\ PaymentsOf(k) =
           OneDecoderEach(MessageList(ProposalNamed(scans[k].name),
                                      ProposalObj(ProposalNamed(scans[k].name))), 1,
                          Context(ProposalNamed(scans[k].name), scans[k].subunit,
                                  SubUnitAddress(scans[k].subunit), now))
      /\ \A j \in 1..Len(PaymentsOf(k)) :
           \E i \in 1..Len(MessageList(ProposalNamed(scans[k].name),
                                       ProposalObj(ProposalNamed(scans[k].name)))) :
             DecoderOfType(PaymentsOf(k)[j].MessageType) =
               DecoderOf(MessageList(ProposalNamed(scans[k].name),
                                     ProposalObj(ProposalNamed(scans[k].name)))[i])

\* the proposal whose messages carry several wrapper keys was scanned: its
\* first message gave a stargate row, its second and third a bank row each,
\* and no wasm row came of it
C24_Witness ==
  \E k \in 1..Len(scans) :
    /\ scans[k].name = "PMultiKey"
    /\ scans[k].count = 3
    /\ PaymentsOf(k)[1].MessageType = "stargate"
    /\ PaymentsOf(k)[2].MessageType = "bank_send"
    /\ PaymentsOf(k)[3].MessageType = "bank_send"

\* C25: every stake row of the returned ledger is addressed to the contract
\* and has the transaction category 'Staking' the wasm decoder gave it
C25_StakeRowKeepsStakingCategory ==
  \A i \in 1..Len(ledger) :
    ledger[i].MessageType = "wasm_stake" =>
      /\ ledger[i].Recipient = ledger[i].ContractAddress
      /\ ledger[i].TransactionCategory = "Staking"

\* As extracted, before the categorisation of lines 81-85, every stake row is
\* addressed to the contract and has the category 'Staking'; in the ledger the
\* address is kept.
C25_StakeRowAsExtracted ==
  /\ \A i \in 1..Len(all_payments) :
       all_payments[i].MessageType = "wasm_stake" =>
         /\ all_payments[i].Recipient = all_payments[i].ContractAddress
         /\ all_payments[i].TransactionCategory = "Staking"
  /\ \A i \in 1..Len(ledger) :
       ledger[i].MessageType = "wasm_stake" =>
         ledger[i].Recipient = ledger[i].ContractAddress

\* the proposal columns a payment of scan k would carry from its proposal
ProposalColumns(k) ==
  BaseRow(Context(ProposalNamed(scans[k].name), scans[k].subunit,
                  SubUnitAddress(scans[k].subunit), now))

\* row carries the id, text, sub-unit name and sub-unit address of base
SameIdTextAndSubUnit(row, base) ==
  /\ row.ProposalID = base.ProposalID
  /\ row.ProposalText = base.ProposalText
  /\ row.SubUnit = base.SubUnit
  /\ row.SubUnitAddress = base.SubUnitAddress

\* C26: every payment extracted from a proposal, whichever path emitted it,
\* carries the proposal's id, title, text and date and the sub-unit's name and
\* address
C26_EveryPaymentCarriesItsProposal ==
  \A k \in 1..Len(scans) :
    IsDict(ProposalNamed(scans[k].name)) =>
      \A i \in 1..Len(PaymentsOf(k)) :
        /\ SameIdTextAndSubUnit(PaymentsOf(k)[i], ProposalColumns(k))
        /\ PaymentsOf(k)[i].ProposalTitle = ProposalColumns(k).ProposalTitle
        /\ PaymentsOf(k)[i].ProposalDate = ProposalColumns(k).ProposalDate

\* Every payment carries the id, text, sub-unit name and address of its
\* proposal, and every payment but those of _parse_contract_execution its
\* title and date as well.
C26_AllButContractRowsCarryTitleAndDate ==
  \A k \in 1..Len(scans) :
    IsDict(ProposalNamed(scans[k].name)) =>
      \A i \in 1..Len(PaymentsOf(k)) :
        /\ SameIdTextAndSubUnit(PaymentsOf(k)[i], ProposalColumns(k))
        /\ PaymentsOf(k)[i].MessageType \notin {"contract_instantiate", "wasm_contract_call"}
           => /\ PaymentsOf(k)[i].ProposalTitle = ProposalColumns(k).ProposalTitle
              /\ PaymentsOf(k)[i].ProposalDate = ProposalColumns(k).ProposalDate

\* the records of the pricing file that was read, none for a missing file
PricingList == IF pricing_file.found THEN pricing_file.entries ELSE <<>>

\* the table key of a record's token: stripped of blanks, upper-cased
StrippedKey(tok) == StrUpper(Strip(tok))

\* the table key of a record's token were it only upper-cased
UpperKey(tok) == StrUpper(tok)

\* the index of the last record whose token has the key and whose date is date, or 0
LastStripped(key, date) ==
  LET hits == {i \in 1..Len(PricingList) :
                 StrippedKey(PricingList[i].token) = key /\ PricingList[i].date = date}
  IN  IF hits = {} THEN 0 ELSE CHOOSE i \in hits : \A j \in hits : j <= i

LastUpper(key, date) ==
  LET hits == {i \in 1..Len(PricingList) :
                 UpperKey(PricingList[i].token) = key /\ PricingList[i].date = date}
  IN  IF hits = {} THEN 0 ELSE CHOOSE i \in hits : \A j \in hits : j <= i

\* C27 (amended): the table built from the file's records has, for every
\* record with a token that is not blank, the key of the token stripped of
\* surrounding blanks and upper-cased, and under it the record's date; the
\* price stored for a key and date is the price of the last record whose
\* token gives that key and whose date is that date; nothing else is stored
C27_LastWriterWinsPerStrippedSymbolAndDate ==
  pc # "construct" =>
    /\ \A i \in 1..Len(PricingList) :
         StrippedKey(PricingList[i].token) # <<>> =>
           /\ StrippedKey(PricingList[i].token) \in DOMAIN pricing_lookup
           /\ PricingList[i].date \in DOMAIN pricing_lookup[StrippedKey(PricingList[i].token)]
    /\ \A key \in DOMAIN pricing_lookup :
         \A date \in DOMAIN pricing_lookup[key] :
           /\ LastStripped(key, date) # 0
           /\ pricing_lookup[key][date] = PricingList[LastStripped(key, date)].price

\* C27: the same with symbols compared case-insensitively and nothing more
C27_LastWriterWinsPerSymbolAndDate ==
  pc # "construct" =>
    /\ \A i \in 1..Len(PricingList) :
         UpperKey(PricingList[i].token) # <<>> =>
           /\ UpperKey(PricingList[i].token) \in DOMAIN pricing_lookup
           /\ PricingList[i].date \in DOMAIN pricing_lookup[UpperKey(PricingList[i].token)]
    /\ \A key \in DOMAIN pricing_lookup :
         \A date \in DOMAIN pricing_lookup[key] :
           /\ LastUpper(key, date) # 0
           /\ pricing_lookup[key][date] = PricingList[LastUpper(key, date)].price

\* a file was loaded whose first two records name one symbol in different
\* case on one date with different prices, and whose third is for another
\* date of that symbol: the table has the second price and both dates
C27_Witness ==
  /\ pc # "construct"
  /\ Len(PricingList) = 3
  /\ PricingList[1] = Entry(OSMO, Jan01, Price(1, 1))
  /\ PricingList[2] = Entry(osmo, Jan01, Price(2, 1))
  /\ PricingList[3] = Entry(OSMO, Jan02, Price(1, 1))
  /\ pricing_lookup[OSMO][Jan01] = Price(2, 1)
  /\ pricing_lookup[OSMO][Jan02] = Price(1, 1)

\* C28: no step of process_all_proposals changes the price table, the token
\* registry or the set of core-team addresses
C28_RunLeavesTableRegistryAndCoreTeam ==
  [][/\ pricing_lookup' = pricing_lookup
     /\ token_data' = token_data
     /\ core_team_addresses' = core_team_addresses]_vars

\* a run has returned its ledger after the valuation wrote a fetched price
\* into the remote-lookup cache, and the price table is still the one loaded
\* from the pricing file
C28_Witness ==
  /\ pc = "done"
  /\ ledger # <<>>
  /\ cg_cache.exists
  /\ \E key \in DOMAIN cg_cache.map : IsNum(cg_cache.map[key])
  /\ pricing_lookup = LoadPricingData(pricing_file)

\* C30: the detailed report of a ledger has no row of message type
\* wasm_execute_funds, whether rows of no USD value are included or not
C30_NoFundsRowInDetailedReport ==
  detailed_report.made =>
    \A i \in 1..Len(detailed_report.rows) :
      detailed_report.rows[i].message_type # "wasm_execute_funds"

\* a report that includes rows of no USD value was made of a ledger that has
\* a dated funds row; the report has rows, none of them that one
C30_Witness ==
  /\ detailed_report.made
  /\ detailed_report.include_zero_usd
  /\ detailed_report.rows # <<>>
  /\ \E i \in 1..Len(ledger) :
       /\ ledger[i].MessageType = "wasm_execute_funds"
       /\ HasProposalDate(ledger[i])

\* the same of a report that leaves out rows of no USD value, the funds row
\* having one
C30_WitnessValued ==
  /\ detailed_report.made
  /\ ~detailed_report.include_zero_usd
  /\ \E i \in 1..Len(ledger) :
       /\ ledger[i].MessageType = "wasm_execute_funds"
       /\ HasProposalDate(ledger[i])
       /\ RatGt(ledger[i].USDValue, 0)

\* every valuation has returned
AllReturned == threads # NoThreads /\ \A t \in DOMAIN threads : threads[t].pc = "returned"

\* the prices the valuations have written for the raced pair
WrittenPrices == {threads[t].price : t \in {u \in DOMAIN threads : threads[u].wrote}}

\* C29: valuations of one missing (service id, date) pair running at once:
\* when all have returned they have returned the same USD value; from the
\* moment one has written the pair's price the cache holds a price written
\* for the pair
C29_RaceIsNeutral ==
  /\ AllReturned => \A t, u \in DOMAIN threads : threads[t].usd = threads[u].usd
  /\ WrittenPrices # {} =>
       /\ RacedKey \in DOMAIN cg_cache.map
       /\ cg_cache.map[RacedKey] \in WrittenPrices

\* With a service that gave every request the same priced answer, the
\* valuations that have all returned have returned the same USD value and the
\* cache holds the pair's price.
C29_SameAnswersSameResultAtTheEnd ==
  AllReturned /\ (\A i \in 1..Len(requests) : requests[i].kind = "ok") =>
    /\ \A t, u \in DOMAIN threads : threads[t].usd = threads[u].usd
    /\ RacedKey \in DOMAIN cg_cache.map
    /\ cg_cache.map[RacedKey] \in WrittenPrices

\* Even with such a service the price one valuation wrote is, for a while,
\* not in the cache: the other valuation's late creation of the cache
\* dropped it.
C29_WrittenEntryStaysWithSameAnswers ==
  (\A i \in 1..Len(requests) : requests[i].kind = "ok") /\ WrittenPrices # {} =>
    RacedKey \in DOMAIN cg_cache.map

\* A cache that existed before the valuations keeps what it held.
C29_ExistingCacheKeepsItsEntries ==
  threads # NoThreads /\ OtherKey \in DOMAIN cg_cache.map =>
    cg_cache.map[OtherKey] = Price(7, 1)

=============================================================================
